---- MODULE Spec2Model ----
(***************************************************************************)
(* A model of vmap: the ring buffers of vmap::io (Ring, InfiniteRing and   *)
(* the SeqRead / SeqWrite traits), the construction of the double mapping  *)
(* (os::map_ring), and the life cycle of Map / MapMut handles.             *)
(*                                                                         *)
(* Sizes are scaled down: the host reports its page size, the target's usize *)
(* is 2^usizeBits values wide, and u64 is 2^WideBits values wide.          *)
(***************************************************************************)
EXTENDS Integers, Sequences, FiniteSets, TLC

VARIABLES
    usizeBits,  \* width of the target's usize (NarrowBits or WideBits)
    overflowChecks, \* whether the build panics on integer overflow (debug)
    sys,        \* what the host's system_info() reports: page, alloc
    ring,       \* the Ring / InfiniteRing struct: kind, len, rpos | rlen, wpos
    mem,        \* the len physical bytes behind the double mapping
    pending,    \* ghost: the bytes accepted and not yet consumed, oldest first
    written,    \* ghost: the last bytes written to an InfiniteRing, oldest first
    last,       \* the last call made on the ring: op, arg, ret
    host,       \* the host's page table: what backs each virtual page
    call,       \* the os::map_ring call in progress: its locals and its result
    handle,     \* the Map / MapMut made by Options: state, ptr, len, prot
    region,     \* what the host mapped for the handle, and the unmap calls made
    PAGE_SIZE,  \* the cached page size, 0 until it is stored
    ALLOC_SIZE, \* the cached allocation granularity, 0 until it is stored
    threads,    \* the threads calling page_size() and allocation_size()
    maps        \* the mappings made of one file: protection, private pages

\* the state of the size cache
cacheVars == <<PAGE_SIZE, ALLOC_SIZE, threads>>

\* the size cache before any call, with no thread calling
NoThreads ==
    /\ PAGE_SIZE = 0
    /\ ALLOC_SIZE = 0
    /\ threads = <<>>

vars == <<usizeBits, overflowChecks, sys, cacheVars, maps, ring, mem, pending, written, last,
          host, call, handle, region>>

-----------------------------------------------------------------------------
(* Bounds of the model. *)

\* Largest capacity hint given to Ring::new / InfiniteRing::new.
MaxHint == 3
\* The cursors are 64-bit counters: calls that would move wpos past MaxPos
\* are not taken.
MaxPos == 9
\* Longest buffer handed to write / write_all / read.
MaxBuf == 2
\* Bytes are 0..MaxByte.
MaxByte == 1
\* usize of a narrow target (stands for 32 bits).
NarrowBits == 3
\* u64, and usize of a wide target (stands for 64 bits).
WideBits == 5
\* The host's page size and allocation granularity are 2^0 .. 2^MaxSizeBits.
MaxSizeBits == 1

Bytes == 0..MaxByte
U64Mod == 2^WideBits
UsizeMod == 2^usizeBits
UsizeMax == UsizeMod - 1

Min(a, b) == IF a <= b THEN a ELSE b

\* u64 arithmetic
U64Add(a, b) == (a + b) % U64Mod
U64Sub(a, b) == (a - b + U64Mod) % U64Mod
\* `x as usize` of a u64
AsUsize(x) == x % UsizeMod
\* usize arithmetic
UsizeAdd(a, b) == (a + b) % UsizeMod
UsizeSub(a, b) == (a - b + UsizeMod) % UsizeMod

\* os::system_info(): the page size and the allocation granularity, both
\* powers of two, the second a multiple of the first.
SystemInfos ==
    {[page |-> 2^p, alloc |-> 2^a] : p \in 0..MaxSizeBits, a \in 0..MaxSizeBits}

\* Size(S): truncate is len & !(S - 1), round is truncate(len + S - 1)
Size_truncate(S, len) == len - (len % S)
Size_round(S, len) == Size_truncate(S, UsizeSub(UsizeAdd(len, S), 1))
Size_offset(S, len) == len % S
Size_page == sys.page
Size_alloc == sys.alloc

\* All byte sequences of length 0..n
RECURSIVE SeqsUpTo(_)
SeqsUpTo(n) ==
    IF n = 0 THEN {<<>>}
    ELSE LET s == SeqsUpTo(n - 1)
         IN s \cup {Append(x, b) : x \in {y \in s : Len(y) = n - 1}, b \in Bytes}

Bufs == SeqsUpTo(MaxBuf)

Drop(s, n) == SubSeq(s, n + 1, Len(s))
Take(s, n) == SubSeq(s, 1, n)

-----------------------------------------------------------------------------
(* The double mapping: the 2*len bytes at ptr, where ptr+i and ptr+i+len   *)
(* are the same physical byte. An address outside it is not the ring's.    *)

Wild == 0 - 1

InRegion(r, v) == 0 <= v /\ v < 2 * r.len

Load(r, m, v) == IF InRegion(r, v) THEN m[v % r.len] ELSE Wild

\* slice::from_raw_parts(ptr.offset(off), n)
SliceLoad(r, m, off, n) == [i \in 1..n |-> Load(r, m, off + i - 1)]

\* dst.copy_from_slice(src) with dst the slice at ptr.offset(off)
RECURSIVE SliceStore(_, _, _, _)
SliceStore(r, m, off, src) ==
    IF src = <<>> THEN m
    ELSE LET m1 == IF InRegion(r, off)
                   THEN [m EXCEPT ![off % r.len] = Head(src)]
                   ELSE m
         IN SliceStore(r, m1, off + 1, Tail(src))

-----------------------------------------------------------------------------
(* Ring: src/src/io/ring.rs *)

\* a faulty variant: the read position is not reduced modulo the capacity
Ring_read_offset_unreduced(r) == AsUsize(r.rpos)

Ring_read_offset(r) == AsUsize(r.rpos) % r.len

Ring_read_len(r) == AsUsize(U64Sub(r.wpos, r.rpos))

Ring_write_offset(r) == AsUsize(r.wpos) % r.len

Ring_write_capacity(r) == r.len

\* a faulty variant: the unread bytes are not taken off the writable length
Ring_write_len_whole(r) == Ring_write_capacity(r)

Ring_write_len(r) == UsizeSub(Ring_write_capacity(r), Ring_read_len(r))

\* a faulty variant: feed does not clamp to write_len()
Ring_feed_unclamped(r, len) == [r EXCEPT !.wpos = U64Add(r.wpos, len)]

Ring_feed(r, len) ==
    [r EXCEPT !.wpos = U64Add(r.wpos, Min(len, Ring_write_len(r)))]

\* a faulty variant: consume does not clamp to read_len()
Ring_consume_unclamped(r, len) == [r EXCEPT !.rpos = U64Add(r.rpos, len)]

Ring_consume(r, len) ==
    [r EXCEPT !.rpos = U64Add(r.rpos, Min(len, Ring_read_len(r)))]

Ring_clear(r) == [r EXCEPT !.rpos = 0, !.wpos = 0]

-----------------------------------------------------------------------------
(* InfiniteRing: src/src/io/ring.rs *)

InfiniteRing_read_offset(r) == AsUsize(U64Sub(r.wpos, r.rlen)) % r.len

InfiniteRing_read_len(r) == AsUsize(r.rlen)

InfiniteRing_write_offset(r) == AsUsize(r.wpos) % r.len

InfiniteRing_write_capacity(r) == r.len

InfiniteRing_write_len(r) == InfiniteRing_write_capacity(r)

\* a faulty variant: rlen is not clamped to the capacity
InfiniteRing_feed_unclamped(r, len) ==
    [r EXCEPT !.wpos = U64Add(r.wpos, Min(len, r.len)),
              !.rlen = U64Add(r.rlen, len)]

\* feed: wpos += min(len, write_len()); rlen = min(rlen + len, self.len)
InfiniteRing_feed(r, len) ==
    [r EXCEPT !.wpos = U64Add(r.wpos, Min(len, InfiniteRing_write_len(r))),
              !.rlen = Min(U64Add(r.rlen, len), r.len)]

\* whether `self.rlen + len as u64` overflows the u64
InfiniteRing_feed_overflows(r, len) == r.rlen + len >= U64Mod

\* feed in a build that checks overflow, when the addition overflows: wpos
\* has been advanced and the addition panics
InfiniteRing_feed_panicked(r, len) ==
    [r EXCEPT !.wpos = U64Add(r.wpos, Min(len, InfiniteRing_write_len(r)))]

\* a faulty variant: consume takes len off rlen without clamping it to read_len()
InfiniteRing_consume_unclamped(r, len) ==
    [r EXCEPT !.rlen = U64Sub(r.rlen, len)]

\* consume: rlen -= min(len, read_len())
InfiniteRing_consume(r, len) ==
    [r EXCEPT !.rlen = U64Sub(r.rlen, Min(len, InfiniteRing_read_len(r)))]

-----------------------------------------------------------------------------
(* The traits SeqRead and SeqWrite: src/src/io/mod.rs *)

read_offset(r) ==
    IF r.kind = "Ring" THEN Ring_read_offset(r) ELSE InfiniteRing_read_offset(r)
read_len(r) ==
    IF r.kind = "Ring" THEN Ring_read_len(r) ELSE InfiniteRing_read_len(r)
write_offset(r) ==
    IF r.kind = "Ring" THEN Ring_write_offset(r) ELSE InfiniteRing_write_offset(r)
write_len(r) ==
    IF r.kind = "Ring" THEN Ring_write_len(r) ELSE InfiniteRing_write_len(r)
write_capacity(r) ==
    IF r.kind = "Ring" THEN Ring_write_capacity(r) ELSE InfiniteRing_write_capacity(r)
feed(r, len) ==
    IF r.kind = "Ring" THEN Ring_feed(r, len) ELSE InfiniteRing_feed(r, len)
consume(r, len) ==
    IF r.kind = "Ring" THEN Ring_consume(r, len) ELSE InfiniteRing_consume(r, len)

as_read_slice(r, m, max) ==
    SliceLoad(r, m, read_offset(r), Min(read_len(r), max))

\* the length and the place of the mutable slice as_write_slice(max)
as_write_slice_len(r, max) == Min(write_len(r), max)

\* read_from(into): what is copied out, and the ring afterwards
read_from(r, m, n) ==
    LET src == as_read_slice(r, m, n)
    IN [ring |-> consume(r, Len(src)), data |-> src, ret |-> Len(src)]

\* write_into(from): the ring and the memory afterwards
write_into(r, m, from) ==
    LET len == as_write_slice_len(r, Len(from))
    IN [ring |-> feed(r, len),
        mem |-> SliceStore(r, m, write_offset(r), Take(from, len)),
        ret |-> len]

-----------------------------------------------------------------------------
(* Ring::new and the calls on a Ring *)

\* a faulty variant: the hint is taken as the capacity without rounding
Ring_new_unrounded(hint) ==
    [kind |-> "Ring", len |-> hint, rpos |-> 0, wpos |-> 0]

\* Ring::new(hint): len = Size::alloc().round(hint), both cursors 0
Ring_new(hint) ==
    [kind |-> "Ring", len |-> Size_round(Size_alloc, hint), rpos |-> 0, wpos |-> 0]

\* the zero-filled bytes of a fresh double mapping of len bytes
FreshMem(len) == [i \in 0..(len - 1) |-> 0]

Called(op, arg, ret) == [op |-> op, arg |-> arg, ret |-> ret]

\* no os::map_ring call is modelled: the double mapping is taken as valid
NoCall == [pc |-> "none"]

\* no Map / MapMut is modelled
NoHandle == [state |-> "none"]
NoRegion == [mapped |-> FALSE]

InitRing ==
    /\ usizeBits \in {NarrowBits, WideBits}
    /\ NoThreads
    /\ maps = <<>>
    /\ overflowChecks = FALSE
    /\ written = <<>>
    /\ sys \in {s \in SystemInfos : s.page = s.alloc}
    /\ \E hint \in 1..MaxHint :
        /\ 2 * Ring_new(hint).len < UsizeMod
        /\ ring = Ring_new(hint)
        /\ mem = FreshMem(Ring_new(hint).len)
    /\ pending = <<>>
    /\ last = Called("new", 0, 0)
    /\ host = <<>>
    /\ call = NoCall
    /\ handle = NoHandle
    /\ region = NoRegion

\* the lengths the calls are tried with
Lens == {0, 1, ring.len, UsizeMax}

InBound(r) == r.wpos <= MaxPos

RingFeed ==
    /\ ring.kind = "Ring"
    /\ \E k \in Lens :
        LET n == Min(k, write_len(ring))
        IN /\ InBound(feed(ring, k))
           /\ ring' = feed(ring, k)
           /\ pending' = pending \o SliceLoad(ring, mem, write_offset(ring), n)
           /\ last' = Called("feed", k, n)
    /\ UNCHANGED <<host, call, handle, region, usizeBits, overflowChecks, sys, cacheVars, maps, mem, written>>

RingConsume ==
    /\ ring.kind = "Ring"
    /\ \E k \in Lens :
        /\ ring' = consume(ring, k)
        /\ pending' = Drop(pending, Min(k, Len(pending)))
        /\ last' = Called("consume", k, Min(k, read_len(ring)))
    /\ UNCHANGED <<host, call, handle, region, usizeBits, overflowChecks, sys, cacheVars, maps, mem, written>>

RingClear ==
    /\ ring.kind = "Ring"
    /\ ring' = Ring_clear(ring)
    /\ pending' = <<>>
    /\ last' = Called("clear", 0, 0)
    /\ UNCHANGED <<host, call, handle, region, usizeBits, overflowChecks, sys, cacheVars, maps, mem, written>>

\* Ring::read_and_consume(max)
Ring_read_and_consume(r, m, max) ==
    LET offset == Ring_read_offset(r)
        len == Min(Ring_read_len(r), max)
    IN [ring |-> [r EXCEPT !.rpos = U64Add(r.rpos, len)],
        data |-> SliceLoad(r, m, offset, len),
        ret |-> len]

RingReadAndConsume ==
    /\ ring.kind = "Ring"
    /\ \E max \in Lens :
        LET res == Ring_read_and_consume(ring, mem, max)
        IN /\ ring' = res.ring
           /\ pending' = Drop(pending, Min(res.ret, Len(pending)))
           /\ last' = Called("read_and_consume", max, res.ret)
    /\ UNCHANGED <<host, call, handle, region, usizeBits, overflowChecks, sys, cacheVars, maps, mem, written>>

\* <Ring as Write>::write(buf)
RingWrite ==
    /\ ring.kind = "Ring"
    /\ \E buf \in Bufs :
        LET res == write_into(ring, mem, buf)
        IN /\ InBound(res.ring)
           /\ ring' = res.ring
           /\ mem' = res.mem
           /\ pending' = pending \o Take(buf, res.ret)
           /\ last' = Called("write", Len(buf), res.ret)
    /\ UNCHANGED <<host, call, handle, region, usizeBits, overflowChecks, sys, cacheVars, maps, written>>

\* <Ring as Read>::read(buf) with a buffer of n bytes
RingRead ==
    /\ ring.kind = "Ring"
    /\ \E n \in 0..MaxBuf :
        LET res == read_from(ring, mem, n)
        IN /\ ring' = res.ring
           /\ pending' = Drop(pending, Min(res.ret, Len(pending)))
           /\ last' = Called("read", n, res.ret)
    /\ UNCHANGED <<host, call, handle, region, usizeBits, overflowChecks, sys, cacheVars, maps, mem, written>>

\* Write::write_all over write: write until the buffer is empty, and fail
\* with WriteZero when a write accepts nothing.
RECURSIVE write_all(_, _, _, _)
write_all(r, m, buf, done) ==
    IF buf = <<>> THEN [ring |-> r, mem |-> m, ret |-> "Ok", done |-> done]
    ELSE LET res == write_into(r, m, buf)
         IN IF res.ret = 0
            THEN [ring |-> r, mem |-> m, ret |-> "Err", done |-> done]
            ELSE write_all(res.ring, res.mem, Drop(buf, res.ret), done + res.ret)

RingWriteAll ==
    /\ ring.kind = "Ring"
    /\ \E buf \in Bufs :
        LET res == write_all(ring, mem, buf, 0)
        IN /\ InBound(res.ring)
           /\ ring' = res.ring
           /\ mem' = res.mem
           /\ pending' = pending \o Take(buf, res.done)
           /\ last' = Called("write_all", Len(buf), res.ret)
    /\ UNCHANGED <<host, call, handle, region, usizeBits, overflowChecks, sys, cacheVars, maps, written>>

NextRing ==
    \/ RingFeed
    \/ RingConsume
    \/ RingClear
    \/ RingReadAndConsume
    \/ RingWrite
    \/ RingRead
    \/ RingWriteAll

SpecRing == InitRing /\ [][NextRing]_vars

\* a Ring driven through Write::write and Read::read alone
NextRingReadWrite == RingWrite \/ RingRead

SpecRingReadWrite == InitRing /\ [][NextRingReadWrite]_vars

-----------------------------------------------------------------------------
(* InfiniteRing::new and the calls on an InfiniteRing *)

InfiniteRing_new(hint) ==
    [kind |-> "InfiniteRing", len |-> Size_round(Size_alloc, hint),
     rlen |-> 0, wpos |-> 0]

\* the last n elements of s (all of s when it is shorter)
LastN(s, n) == IF Len(s) <= n THEN s ELSE SubSeq(s, Len(s) - n + 1, Len(s))

InitInfiniteRing ==
    /\ usizeBits \in {NarrowBits, WideBits}
    /\ NoThreads
    /\ maps = <<>>
    /\ overflowChecks \in BOOLEAN
    /\ sys \in {s \in SystemInfos : s.page = s.alloc}
    /\ \E hint \in 1..MaxHint :
        /\ 2 * InfiniteRing_new(hint).len < UsizeMod
        /\ ring = InfiniteRing_new(hint)
        /\ mem = FreshMem(InfiniteRing_new(hint).len)
    /\ pending = <<>>
    /\ written = <<>>
    /\ last = Called("new", 0, 0)
    /\ host = <<>>
    /\ call = NoCall
    /\ handle = NoHandle
    /\ region = NoRegion

\* SeqWrite::feed(len) called directly
InfiniteRingFeed ==
    /\ ring.kind = "InfiniteRing"
    /\ \E k \in Lens :
        LET n == Min(k, write_len(ring))
        IN IF overflowChecks /\ InfiniteRing_feed_overflows(ring, k)
           THEN /\ InBound(InfiniteRing_feed_panicked(ring, k))
                /\ ring' = InfiniteRing_feed_panicked(ring, k)
                /\ written' = written
                /\ last' = Called("feed_panic", k, 0)
           ELSE /\ InBound(feed(ring, k))
                /\ ring' = feed(ring, k)
                /\ written' =
                     LastN(written \o SliceLoad(ring, mem, write_offset(ring), n),
                           ring.len)
                /\ last' = Called("feed", k, n)
    /\ UNCHANGED <<host, call, handle, region, usizeBits, overflowChecks, sys, cacheVars, maps, mem, pending>>

InfiniteRingConsume ==
    /\ ring.kind = "InfiniteRing"
    /\ \E k \in Lens :
        /\ ring' = consume(ring, k)
        /\ last' = Called("consume", k, Min(k, read_len(ring)))
    /\ UNCHANGED <<host, call, handle, region, usizeBits, overflowChecks, sys, cacheVars, maps, mem, pending, written>>

\* <InfiniteRing as Write>::write(buf)
InfiniteRingWrite ==
    /\ ring.kind = "InfiniteRing"
    /\ \E buf \in Bufs :
        LET res == write_into(ring, mem, buf)
        IN /\ InBound(res.ring)
           /\ ring' = res.ring
           /\ mem' = res.mem
           /\ written' = LastN(written \o Take(buf, res.ret), ring.len)
           /\ last' = Called("write", Len(buf), res.ret)
    /\ UNCHANGED <<host, call, handle, region, usizeBits, overflowChecks, sys, cacheVars, maps, pending>>

\* a faulty variant: write_all copies the front of an oversized buffer, as write does
InfiniteRing_write_all_front(r, m, buf) ==
    LET len == Min(r.len, Len(buf))
    IN [ring |-> feed(r, len),
        mem |-> SliceStore(r, m, write_offset(r), Take(buf, len)),
        ret |-> "Ok"]

\* <InfiniteRing as Write>::write_all(buf)
InfiniteRing_write_all(r, m, buf) ==
    LET len == as_write_slice_len(r, Len(buf))
        tail == Len(buf) - len
    IN [ring |-> feed(r, len),
        mem |-> SliceStore(r, m, write_offset(r), Drop(buf, tail)),
        ret |-> "Ok"]

\* write_all is also tried with buffers longer than the larger capacities
LongBufs == SeqsUpTo(MaxBuf + 1)

InfiniteRingWriteAll ==
    /\ ring.kind = "InfiniteRing"
    /\ \E buf \in LongBufs :
        LET res == InfiniteRing_write_all(ring, mem, buf)
        IN /\ InBound(res.ring)
           /\ ring' = res.ring
           /\ mem' = res.mem
           /\ written' = LastN(written \o buf, ring.len)
           /\ last' = Called("write_all", Len(buf), res.ret)
    /\ UNCHANGED <<host, call, handle, region, usizeBits, overflowChecks, sys, cacheVars, maps, pending>>

\* <InfiniteRing as Read>::read(buf) with a buffer of n bytes
InfiniteRingRead ==
    /\ ring.kind = "InfiniteRing"
    /\ \E n \in 0..MaxBuf :
        LET res == read_from(ring, mem, n)
        IN /\ ring' = res.ring
           /\ last' = Called("read", n, res.ret)
    /\ UNCHANGED <<host, call, handle, region, usizeBits, overflowChecks, sys, cacheVars, maps, mem, pending, written>>

NextInfiniteRing ==
    \/ InfiniteRingFeed
    \/ InfiniteRingConsume
    \/ InfiniteRingWrite
    \/ InfiniteRingWriteAll
    \/ InfiniteRingRead

SpecInfiniteRing == InitInfiniteRing /\ [][NextInfiniteRing]_vars

\* an InfiniteRing driven through write, write_all and consume alone
NextInfiniteRingWriteConsume ==
    \/ InfiniteRingWrite
    \/ InfiniteRingWriteAll
    \/ InfiniteRingConsume

SpecInfiniteRingWriteConsume ==
    InitInfiniteRing /\ [][NextInfiniteRingWriteConsume]_vars

\* either kind of ring
InitRings == InitRing \/ InitInfiniteRing

NextRings == NextRing \/ NextInfiniteRing

SpecRings == InitRings /\ [][NextRings]_vars

-----------------------------------------------------------------------------
(* Claims about the rings *)

\* C1: on a bounded Ring, after any sequence of feed, consume,
\* read_and_consume, clear, write and read calls, 0 <= wpos - rpos <= N.
C1_CursorsBounded ==
    /\ ring.rpos <= ring.wpos
    /\ ring.wpos - ring.rpos <= ring.len

\* a ring filled to capacity by feed(usize::MAX) after its cursors have moved
C1_FullAfterWrap ==
    /\ last.op = "feed"
    /\ last.arg = UsizeMax
    /\ ring.rpos > 0
    /\ ring.wpos - ring.rpos = ring.len

\* C2: on a bounded Ring driven by write and read, the bytes a read returns
\* are the bytes the writes accepted, in order and each once: the readable
\* slice is always the queue of accepted bytes not yet read.
C2_ReadsReturnWrites == as_read_slice(ring, mem, UsizeMax) = pending

\* C2 on a target whose usize is as wide as the cursors
C2_ReadsReturnWritesWide ==
    usizeBits = WideBits => as_read_slice(ring, mem, UsizeMax) = pending

\* C4: read_offset() < N, read_offset() + read_len() <= 2N and
\* write_offset() + write_len() <= 2N, so that every byte of as_read_slice(max)
\* and of as_write_slice(max) is inside the 2N double mapping.
C4_SlicesInsideRegion ==
    /\ read_offset(ring) < ring.len
    /\ read_offset(ring) + read_len(ring) <= 2 * ring.len
    /\ write_offset(ring) + write_len(ring) <= 2 * ring.len
    /\ \A max \in Lens :
        /\ \A i \in 1..Min(read_len(ring), max) :
               InRegion(ring, read_offset(ring) + i - 1)
        /\ \A i \in 1..as_write_slice_len(ring, max) :
               InRegion(ring, write_offset(ring) + i - 1)

\* a readable slice that runs over the wrap point, after a write
C4_ReadSliceStraddles ==
    /\ last.op = "write"
    /\ read_offset(ring) + read_len(ring) > ring.len
    /\ read_len(ring) > 1

\* C5: on an InfiniteRing driven by write, write_all and consume, the
\* readable slice is the last read_len() bytes of all the bytes written.
C5_ReadableIsNewest ==
    as_read_slice(ring, mem, UsizeMax) = LastN(written, read_len(ring))

\* C6: on an InfiniteRing rlen <= N and write_len() = N always, and a write
\* accepts min(|buf|, N) bytes whatever is unread.
C6_AlwaysWritable ==
    /\ ring.rlen <= ring.len
    /\ write_len(ring) = ring.len
    /\ last.op = "write" => last.ret = Min(last.arg, ring.len)

\* a write accepted whole by a ring that was already saturated
C6_WriteOnSaturated ==
    /\ last.op = "write"
    /\ last.ret > 0
    /\ ring.rlen = ring.len
    /\ ring.wpos > ring.len + 1

\* C5 on a target whose usize is as wide as the cursors
C5_ReadableIsNewestWide ==
    usizeBits = WideBits =>
        as_read_slice(ring, mem, UsizeMax) = LastN(written, read_len(ring))

\* C7: Ring::write(buf) returns Ok(min(|buf|, N - (wpos - rpos))) and
\* advances wpos by as much; on a full ring it returns Ok(0) and changes
\* neither the cursors nor the memory; write_all(buf) fails if and only if
\* |buf| exceeds write_len() at the time of the call.
C7_WriteStep ==
    /\ last'.op = "write" =>
        /\ last'.ret = Min(last'.arg, ring.len - (ring.wpos - ring.rpos))
        /\ ring'.wpos = ring.wpos + last'.ret
        /\ ring'.rpos = ring.rpos
        /\ ring.wpos - ring.rpos = ring.len =>
               last'.ret = 0 /\ ring' = ring /\ mem' = mem
    /\ last'.op = "write_all" =>
        /\ last'.ret \in {"Ok", "Err"}
        /\ last'.ret = "Err" <=> last'.arg > ring.len - (ring.wpos - ring.rpos)

C7_BoundedWrite == [][C7_WriteStep]_vars

\* a write refused by a full ring, with Ok(0)
C7_RefusedWhenFull ==
    /\ last.op = "write"
    /\ last.arg > 0
    /\ last.ret = 0
    /\ ring.rpos > 0

\* C8: on a bounded Ring feed(k) advances wpos by exactly min(k, write_len())
\* and consume(k) advances rpos by exactly min(k, read_len()); neither
\* changes the other cursor nor the memory.
C8_CursorStep ==
    /\ last'.op = "feed" =>
        /\ ring'.wpos = ring.wpos + Min(last'.arg, ring.len - (ring.wpos - ring.rpos))
        /\ ring'.rpos = ring.rpos
        /\ mem' = mem
    /\ last'.op = "consume" =>
        /\ ring'.rpos = ring.rpos + Min(last'.arg, ring.wpos - ring.rpos)
        /\ ring'.wpos = ring.wpos
        /\ mem' = mem

C8_FeedConsumeFrame == [][C8_CursorStep]_vars

\* consume(usize::MAX) has emptied a ring that held bytes
C8_ConsumedAll ==
    /\ last.op = "consume"
    /\ last.arg = UsizeMax
    /\ last.ret > 0
    /\ ring.rpos = ring.wpos

\* C9: InfiniteRing::write_all(buf) returns Ok; when |buf| > N it advances
\* wpos by exactly N, and afterwards read_len() = N and the readable bytes
\* are the last N bytes of buf.
C9_WriteAllStep ==
    last'.op = "write_all" =>
        /\ last'.ret = "Ok"
        /\ last'.arg > ring.len =>
            /\ ring'.wpos = ring.wpos + ring.len
            /\ read_len(ring') = ring.len
            /\ Len(written') = ring.len
            /\ as_read_slice(ring', mem', UsizeMax) = written'

C9_WriteAllKeepsTail == [][C9_WriteAllStep]_vars

\* an oversized write_all onto a ring of at least two bytes
C9_OversizedWriteAll ==
    /\ last.op = "write_all"
    /\ last.arg > ring.len
    /\ ring.len > 1
    /\ ring.wpos > ring.len

-----------------------------------------------------------------------------
(* The host's virtual memory, and os::map_ring on each platform.            *)
(* Addresses are byte addresses; the page table gives, for each virtual     *)
(* page, the object that backs it and the page of that object.              *)

\* The address space has the pages 1..MaxAddrPages (page 0 is never mapped).
MaxAddrPages == 6
\* Pages that other threads of the process may map while map_ring runs.
MaxForeign == 1
\* windows.rs: `if rc.is_ok() || n == 5`
RingRetries == 5

Platforms == {"posix", "mach", "windows"}

Free == [obj |-> "free", off |-> 0]

AddrPages == 1..MaxAddrPages

\* the pages that the bytes [addr, addr + len) lie on
PagesOf(addr, len) ==
    IF len = 0 THEN {}
    ELSE (addr \div Size_page)..((addr + len - 1) \div Size_page)

\* the base addresses at which the host can place len fresh bytes
Placements(h, len) ==
    {a \in 1..((MaxAddrPages + 1) * Size_page) :
        /\ a % Size_alloc = 0
        /\ a % Size_page = 0
        /\ len > 0
        /\ PagesOf(a, len) \subseteq AddrPages
        /\ \A p \in PagesOf(a, len) : h[p] = Free}

\* whether [addr, addr + len) is free address space
RangeFree(h, addr, len) ==
    /\ PagesOf(addr, len) \subseteq AddrPages
    /\ \A p \in PagesOf(addr, len) : h[p] = Free

\* private anonymous memory: every page has a frame of its own
HostMapAnon(h, addr, len) ==
    [p \in AddrPages |->
        IF p \in PagesOf(addr, len) THEN [obj |-> "anon", off |-> p] ELSE h[p]]

\* a shared mapping of the object obj, from its offset 0, at addr
HostMapObject(h, addr, len, obj) ==
    [p \in AddrPages |->
        IF p \in PagesOf(addr, len)
        THEN [obj |-> obj, off |-> p - (addr \div Size_page)]
        ELSE h[p]]

HostUnmap(h, addr, len) ==
    [p \in AddrPages |-> IF p \in PagesOf(addr, len) THEN Free ELSE h[p]]

\* whether a view of the section starts at addr
HostViewAt(h, addr) ==
    /\ addr % Size_page = 0
    /\ (addr \div Size_page) \in AddrPages
    /\ h[addr \div Size_page] = [obj |-> "section", off |-> 0]

\* UnmapViewOfFile(addr): frees the whole view that starts at addr, and
\* nothing when no view starts there
HostUnmapView(h, addr) ==
    LET first == addr \div Size_page
        view == {p \in AddrPages :
                   /\ p >= first
                   /\ \A q \in first..p :
                        h[q] = [obj |-> "section", off |-> q - first]}
    IN IF HostViewAt(h, addr)
       THEN [p \in AddrPages |-> IF p \in view THEN Free ELSE h[p]]
       ELSE h

\* the physical byte behind the address a
PhysByte(h, a) ==
    IF (a \div Size_page) \in AddrPages
    THEN <<h[a \div Size_page].obj,
           h[a \div Size_page].off * Size_page + (a % Size_page)>>
    ELSE <<"unmapped", a>>

\* the sizes mach_make_memory_entry can write back through `&mut len`: the
\* entry covers whole pages of one VM object, at most the pages asked for
MemoryEntrySizes(len) ==
    {m \in 1..Size_round(Size_page, len) : m % Size_page = 0}

Return(c, ret, op) ==
    [c EXCEPT !.pc = "done", !.ret = ret, !.op = op, !.fd = FALSE]

InitMapRing ==
    /\ usizeBits \in {NarrowBits, WideBits}
    /\ NoThreads
    /\ maps = <<>>
    /\ overflowChecks = FALSE
    /\ \E plat \in Platforms, hint \in 1..MaxHint :
        /\ sys \in {s \in SystemInfos :
                      IF plat = "windows" THEN s.alloc >= s.page
                      ELSE s.alloc = s.page}
        /\ 2 * Size_round(Size_alloc, hint) < UsizeMod
        /\ call = [pc |-> "start", plat |-> plat, hint |-> hint,
                   len |-> Size_round(Size_alloc, hint),
                   mlen |-> Size_round(Size_alloc, hint),
                   pg |-> 0, n |-> 0, fd |-> FALSE, opens |-> 0, closes |-> 0,
                   ret |-> "none", op |-> "None"]
        /\ last = Called("new", hint, 0)
    /\ host = [p \in AddrPages |-> Free]
    /\ ring = [kind |-> "none"]
    /\ mem = <<>>
    /\ pending = <<>>
    /\ written = <<>>
    /\ handle = NoHandle
    /\ region = NoRegion

ringVars ==
    <<usizeBits, overflowChecks, sys, cacheVars, maps, mem, pending, written, last, handle, region>>

\* --- os/unix/posix/mod.rs ---

\* memfd_open succeeds: the descriptor is open
memfd_open(c) == [c EXCEPT !.fd = TRUE, !.opens = c.opens + 1]

\* close(fd)
close(c) == [c EXCEPT !.fd = FALSE, !.closes = c.closes + 1]

\* a faulty variant: tmp_open leaves the descriptor open when ftruncate fails
tmp_open_truncate_failed_open(c) == [c EXCEPT !.pc = "done", !.ret = "Err", !.op = "MemoryFd"]

\* tmp_open when ftruncate fails: the descriptor is closed and the error
\* returned, which map_ring hands on
tmp_open_truncate_failed(c) ==
    [close(c) EXCEPT !.pc = "done", !.ret = "Err", !.op = "MemoryFd"]

\* unmap_ring(pg, len): munmap of 2 * len bytes. A faulty variant frees
\* the first half only.
posix_unmap_ring_first_half(h, pg, len) == HostUnmap(h, pg, len)

posix_unmap_ring(h, pg, len) == HostUnmap(h, pg, 2 * len)

\* map_ring after wrap_fd: `close(fd); ret`
posix_map_ring_return(c, ret, op) ==
    [close(c) EXCEPT !.pc = "done", !.ret = ret, !.op = op]

\* tmp_open(len): memfd_open, then ftruncate to the ring size
PosixTmpOpen ==
    /\ call.pc = "start" /\ call.plat = "posix"
    /\ \/ call' = Return(call, "Err", "MemoryFd")
       \/ call' = tmp_open_truncate_failed(memfd_open(call))
       \/ call' = [memfd_open(call) EXCEPT !.pc = "reserve"]
    /\ UNCHANGED <<host, ring, ringVars>>

\* wrap_fd: an anonymous private mapping of 2 * len bytes, anywhere
PosixReserve ==
    /\ call.pc = "reserve" /\ call.plat = "posix"
    /\ \/ /\ call' = posix_map_ring_return(call, "Err", "RingAllocate")
          /\ host' = host
       \/ \E a \in Placements(host, 2 * call.len) :
            /\ host' = HostMapAnon(host, a, 2 * call.len)
            /\ call' = [call EXCEPT !.pc = "primary", !.pg = a]
    /\ UNCHANGED <<ring, ringVars>>

\* wrap_ptr: the descriptor's offset 0 mapped MAP_SHARED | MAP_FIXED at pg;
\* on failure wrap_fd unmaps the 2 * len bytes
PosixPrimary ==
    /\ call.pc = "primary" /\ call.plat = "posix"
    /\ \/ /\ host' = posix_unmap_ring(host, call.pg, call.len)
          /\ call' = posix_map_ring_return(call, "Err", "RingPrimary")
       \/ /\ host' = HostMapObject(host, call.pg, call.len, "fd")
          /\ call' = [call EXCEPT !.pc = "secondary"]
    /\ UNCHANGED <<ring, ringVars>>

\* wrap_ptr: the same offset 0 mapped again at pg + len; map_ring closes the
\* descriptor and returns
PosixSecondary ==
    /\ call.pc = "secondary" /\ call.plat = "posix"
    /\ \/ /\ host' = posix_unmap_ring(host, call.pg, call.len)
          /\ call' = posix_map_ring_return(call, "Err", "RingSecondary")
          /\ ring' = ring
       \/ /\ host' = HostMapObject(host, call.pg + call.len, call.len, "fd")
          /\ call' = posix_map_ring_return(call, "Ok", "None")
          /\ ring' = Ring_new(call.hint)
    /\ UNCHANGED ringVars

\* --- os/unix/mach.rs ---

\* vm_allocate(port, &mut addr, 2 * len, VM_FLAGS_ANYWHERE)
MachAllocate ==
    /\ call.pc = "start" /\ call.plat = "mach"
    /\ \/ /\ call' = Return(call, "Err", "None")
          /\ host' = host
       \/ \E a \in Placements(host, 2 * call.mlen) :
            /\ host' = HostMapAnon(host, a, 2 * call.mlen)
            /\ call' = [call EXCEPT !.pc = "first", !.pg = a]
    /\ UNCHANGED <<ring, ringVars>>

\* vm_allocate(port, &mut addr, len, VM_FLAGS_FIXED | VM_FLAGS_OVERWRITE):
\* a fresh object behind the first half
MachFirstHalf ==
    /\ call.pc = "first" /\ call.plat = "mach"
    /\ \/ /\ host' = HostUnmap(host, call.pg, 2 * call.mlen)
          /\ call' = Return(call, "Err", "None")
       \/ /\ host' = HostMapObject(host, call.pg, call.mlen, "entry")
          /\ call' = [call EXCEPT !.pc = "entry"]
    /\ UNCHANGED <<ring, ringVars>>

\* mach_make_memory_entry(port, &mut len, addr, ...): the host writes the
\* size of the entry it made back into len
MachMemoryEntry ==
    /\ call.pc = "entry" /\ call.plat = "mach"
    /\ \/ /\ host' = HostUnmap(host, call.pg, 2 * call.mlen)
          /\ call' = Return(call, "Err", "None")
       \/ /\ \E m \in MemoryEntrySizes(call.mlen) :
                call' = [call EXCEPT !.pc = "map", !.mlen = m, !.fd = TRUE]
          /\ host' = host
    /\ UNCHANGED <<ring, ringVars>>

\* half = addr + len; vm_map(port, &mut half, len, ..., map_port, 0, ...)
MachMap ==
    /\ call.pc = "map" /\ call.plat = "mach"
    /\ \/ /\ host' = HostUnmap(host, call.pg, 2 * call.mlen)
          /\ call' = [Return(call, "Err", "None") EXCEPT !.fd = TRUE]
          /\ ring' = ring
       \/ /\ host' = HostMapObject(host, call.pg + call.mlen, call.mlen, "entry")
          /\ call' = [Return(call, "Ok", "None") EXCEPT !.fd = TRUE]
          /\ ring' = Ring_new(call.hint)
    /\ UNCHANGED ringVars

\* --- os/windows.rs ---

\* MapHandle::new(RingAllocate, INVALID_HANDLE_VALUE, PAGE_READWRITE, 2 * len)
WinCreateMapping ==
    /\ call.pc = "start" /\ call.plat = "windows"
    /\ \/ call' = Return(call, "Err", "RingAllocate")
       \/ call' = [call EXCEPT !.pc = "reserve", !.fd = TRUE]
    /\ UNCHANGED <<host, ring, ringVars>>

\* reserve(full): VirtualAlloc(MEM_RESERVE) finds 2 * len free bytes and
\* VirtualFree releases them at once; only the address is kept
WinReserve ==
    /\ call.pc = "reserve" /\ call.plat = "windows"
    /\ \/ call' = Return(call, "Err", "RingAllocate")
       \/ \E a \in Placements(host, 2 * call.len) :
            call' = [call EXCEPT !.pc = "primary", !.pg = a]
    /\ UNCHANGED <<host, ring, ringVars>>

\* a faulty variant: the loop of map_ring does not count its turns
WinRetry_uncounted(c, op) == [c EXCEPT !.pc = "reserve"]

\* the end of one turn of the loop of map_ring with rc an error
WinRetry(c, op) ==
    IF c.n = RingRetries THEN Return(c, "Err", op)
    ELSE [c EXCEPT !.pc = "reserve", !.n = c.n + 1]

\* map_ring_handle: the view of offset 0 at pg; the host maps it only onto
\* free address space
WinPrimary ==
    /\ call.pc = "primary" /\ call.plat = "windows"
    /\ \/ /\ call' = WinRetry(call, "RingPrimary")
          /\ host' = host
       \/ /\ RangeFree(host, call.pg, call.len)
          /\ host' = HostMapObject(host, call.pg, call.len, "section")
          /\ call' = [call EXCEPT !.pc = "secondary"]
    /\ UNCHANGED <<ring, ringVars>>

\* map_ring_handle: the view of offset 0 at pg + len; when it fails the
\* first view is unmapped
WinSecondary ==
    /\ call.pc = "secondary" /\ call.plat = "windows"
    /\ \/ /\ call' = WinRetry(call, "RingSecondary")
          /\ host' = HostUnmapView(host, call.pg)
          /\ ring' = ring
       \/ /\ RangeFree(host, call.pg + call.len, call.len)
          /\ host' = HostMapObject(host, call.pg + call.len, call.len, "section")
          /\ call' = Return(call, "Ok", "None")
          /\ ring' = Ring_new(call.hint)
    /\ UNCHANGED ringVars

\* another thread of the process maps a free page while map_ring runs
ForeignMap ==
    /\ call.pc \notin {"none", "done", "dropped"}
    /\ Cardinality({p \in AddrPages : host[p].obj = "foreign"}) < MaxForeign
    /\ \E p \in AddrPages :
        /\ host[p] = Free
        /\ host' = [host EXCEPT ![p] = [obj |-> "foreign", off |-> p]]
    /\ UNCHANGED <<call, ring, ringVars>>

\* unmap_ring(pg, len) on Mach: vm_deallocate of 2 * len bytes
mach_unmap_ring(h, pg, len) == HostUnmap(h, pg, 2 * len)

\* a faulty variant: only the second view is unmapped
windows_unmap_ring_second(h, pg, len) == HostUnmapView(h, pg + len)

\* unmap_ring(pg, len) on Windows: UnmapViewOfFile(pg + len), and
\* UnmapViewOfFile(pg) when that succeeded
windows_unmap_ring(h, pg, len) ==
    IF HostViewAt(h, pg + len)
    THEN HostUnmapView(HostUnmapView(h, pg + len), pg)
    ELSE h

\* Drop for Ring / InfiniteRing: unmap_ring(self.ptr, self.write_capacity()),
\* its result discarded
RingDrop ==
    /\ call.pc = "done" /\ call.ret = "Ok"
    /\ host' = CASE call.plat = "posix" ->
                     posix_unmap_ring(host, call.pg, write_capacity(ring))
                [] call.plat = "mach" ->
                     mach_unmap_ring(host, call.pg, write_capacity(ring))
                [] OTHER ->
                     windows_unmap_ring(host, call.pg, write_capacity(ring))
    /\ call' = [call EXCEPT !.pc = "dropped"]
    /\ UNCHANGED <<ring, ringVars>>

NextMapRing ==
    \/ PosixTmpOpen
    \/ PosixReserve
    \/ PosixPrimary
    \/ PosixSecondary
    \/ MachAllocate
    \/ MachFirstHalf
    \/ MachMemoryEntry
    \/ MachMap
    \/ WinCreateMapping
    \/ WinReserve
    \/ WinPrimary
    \/ WinSecondary
    \/ ForeignMap
    \/ RingDrop

SpecMapRing == InitMapRing /\ [][NextMapRing]_vars

\* the thread that called map_ring on Windows keeps running: every host
\* call returns
WinMapRingStep == WinCreateMapping \/ WinReserve \/ WinPrimary \/ WinSecondary

SpecMapRingFair == SpecMapRing /\ WF_vars(WinMapRingStep)

-----------------------------------------------------------------------------
(* Claims about the double mapping *)

\* whether the 2 * n bytes at ptr are a double mapping of n bytes
DoubleMapped(h, ptr, n) ==
    \A i \in 0..(n - 1) :
        /\ PhysByte(h, ptr + i) = PhysByte(h, ptr + i + n)
        /\ PhysByte(h, ptr + i)[1] \in {"fd", "entry", "section"}

\* C3: for every ring successfully constructed with capacity N, on each
\* construction strategy, ptr + i and ptr + i + N are the same physical byte
\* for every i in [0, N).
C3_HalvesAliased ==
    (call.pc = "done" /\ call.ret = "Ok") =>
        DoubleMapped(host, call.pg, write_capacity(ring))

\* C3 on the POSIX and on the Windows strategy
C3_HalvesAliasedPosixWindows ==
    (call.pc = "done" /\ call.ret = "Ok" /\ call.plat \in {"posix", "windows"}) =>
        DoubleMapped(host, call.pg, write_capacity(ring))

\* C3 on Mach when the memory entry covers all the bytes asked for
C3_HalvesAliasedWholeEntry ==
    (call.pc = "done" /\ call.ret = "Ok" /\ call.mlen = call.len) =>
        DoubleMapped(host, call.pg, write_capacity(ring))

\* a ring constructed on Windows after a retry
C3_ConstructedAfterRetry ==
    /\ call.pc = "done" /\ call.ret = "Ok"
    /\ call.plat = "windows" /\ call.n > 0
    /\ write_capacity(ring) > Size_page

-----------------------------------------------------------------------------
(* Claims about the construction and the release of the double mapping *)

\* the pages that map_ring has mapped and not unmapped
RingPages(h) ==
    {p \in AddrPages : h[p].obj \in {"anon", "fd", "entry", "section"}}

\* C23: when a step of the ring construction fails after address space has
\* been mapped (the fixed mappings on POSIX, the second view on Windows),
\* map_ring returns the error with nothing of the ring left mapped.
C23_NothingLeftMapped ==
    (call.pc = "done" /\ call.ret = "Err" /\ call.plat \in {"posix", "windows"}) =>
        RingPages(host) = {}

\* on POSIX the second fixed mapping failed, after the reservation and the
\* first fixed mapping were made at pg
C23_FailedAfterMapping ==
    /\ call.pc = "done" /\ call.ret = "Err"
    /\ call.plat = "posix"
    /\ call.op = "RingSecondary"
    /\ call.pg > 0

\* C24: POSIX map_ring closes the temporary descriptor exactly once on every
\* path: no descriptor is closed twice or before it was opened, and none is
\* open once map_ring has returned.
C24_ClosedOnce ==
    call.plat = "posix" =>
        /\ call.closes <= call.opens
        /\ call.opens <= 1
        /\ call.fd = (call.opens = call.closes + 1)
        /\ call.pc \in {"reserve", "primary", "secondary"} => call.fd
        /\ call.pc \in {"done", "dropped"} => call.closes = call.opens
        /\ (call.pc \in {"done", "dropped"} /\ call.op # "MemoryFd") =>
              call.closes = 1

\* map_ring returned the error of a failed fixed mapping with the descriptor
\* closed once
C24_ClosedAfterFailure ==
    /\ call.plat = "posix"
    /\ call.pc = "done" /\ call.ret = "Err"
    /\ call.op = "RingSecondary"
    /\ call.closes = 1

\* what holds of every state of map_ring on Windows: at most RingRetries
\* retries, Ok as soon as both views are mapped at pg and pg + len, and an
\* error of a view only after the last retry
WinBounded ==
    call.plat = "windows" =>
        /\ call.n <= RingRetries
        /\ (call.pc = "done" /\ call.ret = "Ok") =>
              DoubleMapped(host, call.pg, call.len)
        /\ (call.pc # "dropped" /\ DoubleMapped(host, call.pg, call.len)) =>
              (call.pc = "done" /\ call.ret = "Ok")
        /\ (call.pc = "done" /\ call.ret = "Err"
                /\ call.op \in {"RingPrimary", "RingSecondary"}) =>
              call.n = RingRetries

\* C25: Windows map_ring always terminates: it retries at most five times
\* after the first attempt, returns Ok as soon as one attempt maps both
\* views, and returns the last error when every attempt fails.
C25_WindowsTerminates ==
    /\ []WinBounded
    /\ (call.plat = "windows") ~> (call.pc \in {"done", "dropped"})

\* the first attempt and the five retries failed
C25_FailedEveryAttempt ==
    /\ call.plat = "windows"
    /\ call.pc = "done" /\ call.ret = "Err"
    /\ call.op = "RingSecondary"
    /\ call.n = RingRetries

\* C26: unmap_ring(ptr, N) releases the whole double mapping of 2N bytes on
\* every platform: once a ring has been dropped neither half is mapped.
C26_RingReleased ==
    call.pc = "dropped" =>
        /\ \A p \in PagesOf(call.pg, 2 * write_capacity(ring)) : host[p] = Free
        /\ RingPages(host) = {}

\* a ring was dropped on Windows
C26_DroppedOnWindows ==
    /\ call.pc = "dropped"
    /\ call.plat = "windows"
    /\ write_capacity(ring) > 0

\* C27: on Mach, when a step after the first vm_allocate fails, map_ring
\* deallocates the 2N bytes it allocated, N being the length asked for,
\* even when mach_make_memory_entry rewrote its size argument.
C27_MachDeallocatesAll ==
    (call.plat = "mach" /\ call.pc = "done" /\ call.ret = "Err") =>
        RingPages(host) = {}

\* C27 when the memory entry covers all the bytes asked for
C27_MachDeallocatesWholeEntry ==
    (call.plat = "mach" /\ call.pc = "done" /\ call.ret = "Err"
        /\ call.mlen = call.len) =>
        RingPages(host) = {}

\* map_ring returned an error on Mach with pages of its allocation mapped
C27_LeftAllocated ==
    /\ call.plat = "mach"
    /\ call.pc = "done" /\ call.ret = "Err"
    /\ RingPages(host) # {}

-----------------------------------------------------------------------------
(* Map and MapMut: src/src/map.rs                                           *)

\* Largest offset given to Options::offset.
MaxOffset == 2
\* Largest length given to Options::len and Options::resize.
MaxExtent == 2
\* Longest file.
MaxFile == 2

\* Size::bounds(ptr, len)
Size_bounds(S, ptr, len) ==
    [ptr |-> ptr - Size_offset(S, ptr),
     len |-> Size_round(S, UsizeAdd(len, Size_offset(S, ptr)))]

Extents ==
    {[tag |-> "End", n |-> 0]}
        \cup {[tag |-> t, n |-> l] : t \in {"Min", "Max", "Exact"}, l \in 0..MaxExtent}

\* the Options that Map::with_options() and MapMut::with_options() can be
\* configured to (write() is already applied for MapMut; copy() is the only
\* other setter of the protection)
OptionsSet ==
    {o \in [T : {"Map", "MapMut"}, protect : {"ReadOnly", "ReadWrite", "ReadCopy"},
            offset : 0..MaxOffset, len : Extents, resize : Extents,
            truncate : BOOLEAN] :
        o.T = "MapMut" => o.protect # "ReadOnly"}

\* the contents of the files given to map / map_if
Files == SeqsUpTo(MaxFile)

Zeros(n) == [i \in 1..n |-> 0]

\* File::set_len(sz): the file is cut, or extended with zeros
File_set_len(f, sz) ==
    IF sz <= Len(f) THEN Take(f, sz) ELSE f \o Zeros(sz - Len(f))

RECURSIVE File_set_lens(_, _)
File_set_lens(f, sizes) ==
    IF sizes = <<>> THEN f
    ELSE File_set_lens(File_set_len(f, Head(sizes)), Tail(sizes))

\* a faulty variant: the truncate flag is not looked at
Options_truncated_never(o, flen0) == flen0

\* `if self.truncate && flen > 0 { flen = resize(0)? }`: the file's length
\* after the truncation
Options_truncated(o, flen0) ==
    IF o.truncate /\ flen0 > 0 THEN 0 ELSE flen0

\* a faulty variant: Min and Max resize to their length whatever the file's
Options_resized_always(o, flen1) ==
    IF o.resize.tag = "End" THEN <<>> ELSE <<o.resize.n>>

\* `flen = match self.resize { ... }`: the length given to set_len, if any
Options_resized(o, flen1) ==
    CASE o.resize.tag = "Exact" -> <<o.resize.n>>
      [] o.resize.tag = "Min" /\ o.resize.n > flen1 -> <<o.resize.n>>
      [] o.resize.tag = "Max" /\ o.resize.n < flen1 -> <<o.resize.n>>
      [] OTHER -> <<>>

\* a faulty variant: a length extent beyond the file is cut to the file
Options_len_lenient(o, max) ==
    [none |-> FALSE,
     len |-> CASE o.len.tag \in {"Min", "End"} -> max
               [] OTHER -> Min(o.len.n, max)]

\* a faulty variant: Max(l) gives l
Options_len_max_whole(o, max) ==
    [none |-> o.len.tag \in {"Min", "Exact"} /\ o.len.n > max,
     len |-> CASE o.len.tag \in {"Min", "End"} -> max
               [] OTHER -> o.len.n]

\* `let len = match self.len { ... }` with max = flen - off: None, or the
\* length of the map
Options_len(o, max) ==
    [none |-> o.len.tag \in {"Min", "Exact"} /\ o.len.n > max,
     len |-> CASE o.len.tag \in {"Min", "End"} -> max
               [] o.len.tag = "Max" -> Min(o.len.n, max)
               [] OTHER -> o.len.n]

\* a faulty variant: the file is mapped from the offset itself
Options_mapoff_unaligned(off) == off

\* a faulty variant: the offset is rounded down to the page size
Options_mapoff_page(off) == Size_truncate(Size_page, off)

\* `let mapoff = Size::alloc().truncate(off)`
Options_mapoff(off) == Size_truncate(Size_alloc, off)

\* Options::map_if up to the call of map_file: the lengths given to set_len,
\* the file's length after the truncation (flen1) and after the resizing
\* (flen), and either None or the range to map
Options_map_if(o, flen0) ==
    LET off == o.offset
        flen1 == Options_truncated(o, flen0)
        resized == Options_resized(o, flen1)
        flen == IF resized = <<>> THEN flen1 ELSE resized[1]
        ext == Options_len(o, flen - off)
        mapoff == Options_mapoff(off)
    IN [flen1 |-> flen1,
        sets |-> (IF flen1 # flen0 THEN <<0>> ELSE <<>>) \o resized,
        flen |-> flen,
        none |-> flen < off \/ ext.none,
        len |-> ext.len, mapoff |-> mapoff,
        maplen |-> UsizeAdd(ext.len, off - mapoff)]

\* Options::map: None becomes the InvalidRange error
Options_map(ret) == IF ret = "None" THEN "InvalidRange" ELSE ret

\* the bytes the host maps for map_file(f, off, len, prot), 0 when the call
\* fails whatever the state of the host. mmap refuses a length of 0;
\* CreateFileMapping refuses an empty file, and MapViewOfFileEx with a
\* length of 0 maps the file from off to its end.
HostFileBytes(plat, flen, off, len) ==
    IF plat = "unix" THEN len
    ELSE IF flen = 0 THEN 0
    ELSE IF len = 0 THEN flen - off
    ELSE len

\* whether the host refuses map_file(f, off, len, prot) whatever its state:
\* nothing to map, an offset that is not on its granularity (the page size
\* for mmap, the allocation granularity for MapViewOfFileEx), a view past
\* the end of the section, or a shared writable mapping of a file that was
\* not opened for writing
HostFileRefused(plat, writable, flen, off, len, prot) ==
    \/ HostFileBytes(plat, flen, off, len) = 0
    \/ off % (IF plat = "unix" THEN Size_page ELSE Size_alloc) # 0
    \/ plat = "windows" /\ off + len > flen
    \/ prot = "ReadWrite" /\ ~writable

\* the bytes the host maps for map_anon(len, prot), 0 when the call fails
\* whatever the state of the host. On unix the ReadOnly request is made
\* with MAP_SHARED and no MAP_ANON on the descriptor -1.
HostAnonBytes(plat, len, prot) ==
    IF plat = "unix" /\ prot = "ReadOnly" THEN 0 ELSE len

\* a shared mapping of the object obj, from its offset objoff, at addr
HostMapObjectAt(h, addr, len, obj, objoff) ==
    [p \in AddrPages |->
        IF p \in PagesOf(addr, len)
        THEN [obj |-> obj, off |-> (objoff \div Size_page) + p - (addr \div Size_page)]
        ELSE h[p]]

\* the answers the host can give to protect(ptr, len, Protect::ReadWrite) on
\* the pages of the region r when it has the resources. mprotect grants
\* PROT_WRITE on anonymous and private pages and on the shared pages of a
\* file opened for writing; VirtualProtect grants what the access the view
\* was made with allows.
HostProtectWrite(r) ==
    IF r.plat = "unix"
    THEN {r.kind = "anon" \/ r.prot = "ReadCopy" \/ r.writable}
    ELSE CASE r.prot = "ReadWrite" -> {TRUE}
           [] r.prot = "ReadOnly" -> {FALSE}
           [] OTHER -> BOOLEAN

\* a call of the host: os::map_file, map_anon, protect, unmap, flush,
\* advise, lock, unlock, and File::metadata / set_len
HostCall(fn, at, len, prot) == [fn |-> fn, at |-> at, len |-> len, prot |-> prot]

\* the last call of the Map interface: its arguments, the host calls it
\* made, its result, and why the host failed it ("denied": the host refuses
\* the request as such; "other": it lacks the resources)
MapCalled(op, arg, calls, ret, err) ==
    [op |-> op, arg |-> arg, host |-> calls, ret |-> ret, err |-> err]

\* T::from_ptr(ptr, len)
from_ptr(T, ptr, len, prot) == [state |-> T, ptr |-> ptr, len |-> len, prot |-> prot]

Failed(ret) == [state |-> ret, ptr |-> 0, len |-> 0, prot |-> "None"]

Mapped(r, base, len) == [r EXCEPT !.mapped = TRUE, !.base = base, !.len = len]

\* the state before a map is made, in a build with a usize of one of the
\* widths and with overflow checks or without
InitMapBuild(widths, checks) ==
    /\ usizeBits \in widths
    /\ NoThreads
    /\ maps = <<>>
    /\ overflowChecks \in checks
    /\ \E plat \in {"unix", "windows"} :
        /\ sys \in {s \in SystemInfos :
                      IF plat = "windows" THEN s.alloc >= s.page
                      ELSE s.alloc = s.page}
        /\ region = [mapped |-> FALSE, plat |-> plat, base |-> 0, len |-> 0,
                     kind |-> "none", prot |-> "None", off |-> 0,
                     file |-> <<>>, writable |-> FALSE, unmaps |-> <<>>]
    /\ handle = [state |-> "options", ptr |-> 0, len |-> 0, prot |-> "None"]
    /\ host = [p \in AddrPages |-> Free]
    /\ call = NoCall
    /\ ring = [kind |-> "none"]
    /\ mem = <<>>
    /\ pending = <<>>
    /\ written = <<>>
    /\ last = Called("new", 0, 0)

InitMap == InitMapBuild({WideBits}, {FALSE})

mapVars == <<usizeBits, overflowChecks, sys, cacheVars, maps, ring, mem, pending, written, call>>

\* a faulty variant: the offset and the length are validated before the file
\* is truncated and resized
Options_map_if_calls_validated_first(plan, prot) ==
    <<HostCall("metadata", 0, 0, "None")>>
        \o (IF plan.none THEN <<>>
            ELSE [i \in 1..Len(plan.sets) |-> HostCall("set_len", 0, plan.sets[i], "None")]
                    \o <<HostCall("map_file", plan.mapoff, plan.maplen, prot)>>)

\* the host calls of Options::map_if: metadata, set_len for the truncation
\* and for the resizing, and map_file
Options_map_if_calls(plan, prot) ==
    <<HostCall("metadata", 0, 0, "None")>>
        \o [i \in 1..Len(plan.sets) |-> HostCall("set_len", 0, plan.sets[i], "None")]
        \o (IF plan.none THEN <<>>
            ELSE <<HostCall("map_file", plan.mapoff, plan.maplen, prot)>>)

\* the first of the calls that the host refuses whatever its state, 0 when
\* it refuses none: set_len on a file that was not opened for writing, and
\* map_file as HostFileRefused has it
FirstRefused(calls, plat, writable, flen) ==
    LET ref == {i \in 1..Len(calls) :
                  \/ calls[i].fn = "set_len" /\ ~writable
                  \/ /\ calls[i].fn = "map_file"
                     /\ HostFileRefused(plat, writable, flen, calls[i].at,
                                        calls[i].len, calls[i].prot)}
    IN IF ref = {} THEN 0 ELSE CHOOSE i \in ref : \A j \in ref : i <= j

\* the file after the calls before the one that failed (all of them when
\* failed = 0)
FileAfter(f, calls, failed) ==
    LET n == IF failed = 0 THEN Len(calls) ELSE failed - 1
        done == SelectSeq(Take(calls, n), LAMBDA c : c.fn = "set_len")
    IN File_set_lens(f, [i \in 1..Len(done) |-> done[i].len])

\* Options::open / open_if / map / map_if, all of which end in map_if, on a
\* file with the contents f, opened for writing or not. A host call fails
\* when the host refuses it as such or lacks the resources (short = the
\* call it lacks them for, 0 for none), and the first call that fails ends
\* map_if with its error.
OptionsMapIf ==
    /\ handle.state = "options"
    /\ \E o \in OptionsSet, f \in Files, writable \in BOOLEAN :
       \E plan \in {Options_map_if(o, Len(f))} :
       \E calls \in {Options_map_if_calls(plan, o.protect)} :
       \E ref \in {FirstRefused(calls, region.plat, writable, plan.flen)} :
       \E short \in 0..Len(calls) :
       \E failed \in {IF ref = 0 \/ (short # 0 /\ short < ref) THEN short ELSE ref} :
       \E r \in {[region EXCEPT !.file = FileAfter(f, calls, failed),
                                !.writable = writable]} :
       \E arg \in {[o |-> o, file |-> f, writable |-> writable]} :
            IF failed # 0
            THEN /\ handle' = Failed("Err")
                 /\ region' = r
                 /\ host' = host
                 /\ last' = MapCalled("map_if", arg, Take(calls, failed), "Err",
                                      IF failed = ref THEN "denied" ELSE "other")
            ELSE IF plan.none
            THEN /\ handle' = Failed("None")
                 /\ region' = r
                 /\ host' = host
                 /\ last' = MapCalled("map_if", arg, calls, "None", "none")
            ELSE \E bytes \in {HostFileBytes(region.plat, plan.flen, plan.mapoff,
                                             plan.maplen)} :
                 \E base \in Placements(host, bytes) :
                    /\ host' = HostMapObjectAt(host, base, bytes, "file", plan.mapoff)
                    /\ region' = [Mapped(r, base, bytes) EXCEPT
                                    !.kind = "file", !.prot = o.protect,
                                    !.off = plan.mapoff]
                    /\ handle' = from_ptr(o.T, base + (o.offset - plan.mapoff),
                                          plan.len, o.protect)
                    /\ last' = MapCalled("map_if", arg, calls, "Ok", "none")
    /\ UNCHANGED mapVars

\* a faulty variant: the offset is not reduced to its part within a page
Options_alloc_whole_offset(o) ==
    LET off == o.offset
        len == CASE o.len.tag = "End" ->
                      UsizeSub(Size_round(Size_alloc, UsizeAdd(off, 1)), off)
                 [] o.len.tag = "Min" ->
                      UsizeSub(Size_round(Size_alloc, UsizeAdd(off, o.len.n)), off)
                 [] OTHER -> o.len.n
    IN [off |-> off, len |-> len, maplen |-> UsizeAdd(off, len)]

\* Options::alloc up to the call of map_anon
Options_alloc(o) ==
    LET off == Size_offset(Size_page, o.offset)
        len == CASE o.len.tag = "End" ->
                      UsizeSub(Size_round(Size_alloc, UsizeAdd(off, 1)), off)
                 [] o.len.tag = "Min" ->
                      UsizeSub(Size_round(Size_alloc, UsizeAdd(off, o.len.n)), off)
                 [] OTHER -> o.len.n
    IN [off |-> off, len |-> len, maplen |-> UsizeAdd(off, len)]

OptionsAlloc ==
    /\ handle.state = "options"
    /\ \E o \in {x \in OptionsSet : x.resize.tag = "End" /\ ~x.truncate} :
        LET plan == Options_alloc(o)
            bytes == HostAnonBytes(region.plat, plan.maplen, o.protect)
            calls == <<HostCall("map_anon", 0, plan.maplen, o.protect)>>
        IN \/ /\ handle' = Failed("Err")
              /\ last' = MapCalled("alloc", [o |-> o], calls, "Err",
                                   IF bytes = 0 THEN "denied" ELSE "other")
              /\ UNCHANGED <<region, host>>
           \/ \E base \in Placements(host, bytes) :
                /\ host' = HostMapAnon(host, base, bytes)
                /\ region' = [Mapped(region, base, bytes) EXCEPT
                                !.kind = "anon", !.prot = o.protect]
                /\ handle' = from_ptr(o.T, base + plan.off, plan.len, o.protect)
                /\ last' = MapCalled("alloc", [o |-> o], calls, "Ok", "none")
    /\ UNCHANGED mapVars

\* the protect call of MapMut::into_map
MapMut_into_map_protect(h) ==
    LET b == Size_bounds(Size_page, h.ptr, h.len)
    IN HostCall("protect", b.ptr, b.len, "ReadWrite")

\* the protect call of Map::into_map_mut
Map_into_map_mut_protect(h) ==
    LET b == Size_bounds(Size_page, h.ptr, h.len)
    IN HostCall("protect", b.ptr, b.len, "ReadWrite")

\* MapMut::into_map: protect(bounds, Protect::ReadWrite); the handle comes
\* back unchanged when the host refuses
MapMut_into_map(h, ok) ==
    IF ok THEN [h EXCEPT !.state = "Map", !.prot = "ReadWrite"] ELSE h

\* a faulty variant: the handle is dropped when the host refuses
Map_into_map_mut_dropping(h, ok) ==
    IF ok THEN [h EXCEPT !.state = "MapMut", !.prot = "ReadWrite"]
    ELSE [h EXCEPT !.state = "dropped"]

\* a faulty variant: the conversion succeeds whatever the host answers
Map_into_map_mut_unchecked(h, ok) ==
    [h EXCEPT !.state = "MapMut", !.prot = "ReadWrite"]

\* Map::into_map_mut: protect(bounds, Protect::ReadWrite)
Map_into_map_mut(h, ok) ==
    IF ok THEN [h EXCEPT !.state = "MapMut", !.prot = "ReadWrite"] ELSE h

IntoMap ==
    /\ handle.state = "MapMut"
    /\ \E res \in BOOLEAN, granted \in HostProtectWrite(region) :
        LET h == MapMut_into_map(handle, res /\ granted)
        IN /\ handle' = h
           /\ last' = MapCalled("into_map", [h |-> handle],
                                <<MapMut_into_map_protect(handle)>>,
                                IF h.state = "Map" THEN "Ok" ELSE "Err",
                                IF ~granted THEN "denied"
                                ELSE IF ~res THEN "other" ELSE "none")
    /\ UNCHANGED <<region, host, mapVars>>

IntoMapMut ==
    /\ handle.state = "Map"
    /\ \E res \in BOOLEAN, granted \in HostProtectWrite(region) :
        LET h == Map_into_map_mut(handle, res /\ granted)
        IN /\ handle' = h
           /\ last' = MapCalled("into_map_mut", [h |-> handle],
                                <<Map_into_map_mut_protect(handle)>>,
                                IF h.state = "MapMut" THEN "Ok" ELSE "Err",
                                IF ~granted THEN "denied"
                                ELSE IF ~res THEN "other" ELSE "none")
    /\ UNCHANGED <<region, host, mapVars>>

\* the arguments given to the range operations
RangeArgs == {0, 1, UsizeMax}

RangeOps == {"flush_range", "advise_range", "lock_range", "unlock_range"}

\* a faulty variant: the end of the range is not compared with the length
MapMut_range_unchecked(h, off, len) == "call"

\* `if off + len > self.len` of flush_range, advise_range, lock_range and
\* unlock_range: the addition panics with overflow checks and wraps without
MapMut_range(h, off, len) ==
    IF overflowChecks /\ off + len >= UsizeMod THEN "panic"
    ELSE IF UsizeAdd(off, len) > h.len THEN "InvalidRange"
    ELSE "call"

\* the host call of a range operation: Size::page().bounds(ptr.add(off), len)
\* with the address arithmetic of the machine
MapMut_range_call(h, op, off, len) ==
    LET at == IF off + len >= UsizeMod THEN h.ptr + off - UsizeMod ELSE h.ptr + off
        b == Size_bounds(Size_page, at, len)
    IN HostCall(op, b.ptr, b.len, "None")

\* MapMut::flush_range, and advise_range / lock_range / unlock_range of
\* Map and MapMut
MapRange ==
    /\ handle.state \in {"Map", "MapMut"}
    /\ \E op \in RangeOps, off \in RangeArgs, len \in RangeArgs, ok \in BOOLEAN :
        /\ op = "flush_range" => handle.state = "MapMut"
        /\ LET t == MapMut_range(handle, off, len)
               arg == [h |-> handle, off |-> off, len |-> len]
           IN last' =
                IF t = "call"
                THEN MapCalled(op, arg, <<MapMut_range_call(handle, op, off, len)>>,
                               IF ok THEN "Ok" ELSE "Err",
                               IF ok THEN "none" ELSE "other")
                ELSE MapCalled(op, arg, <<>>, t, "none")
    /\ UNCHANGED <<handle, region, host, mapVars>>

\* a faulty variant: the unmapped range is rounded to pages
MapMut_drop_page(h) ==
    IF h.len > 0
    THEN LET b == Size_bounds(Size_page, h.ptr, h.len) IN <<<<b.ptr, b.len>>>>
    ELSE <<>>

\* the unmap calls Drop for MapMut makes
MapMut_drop(h) ==
    IF h.len > 0
    THEN LET b == Size_bounds(Size_alloc, h.ptr, h.len) IN <<<<b.ptr, b.len>>>>
    ELSE <<>>

\* os::unmap(ptr, len): munmap frees the pages of [ptr, ptr + len);
\* UnmapViewOfFile frees the view that starts at ptr
os_unmap(h, r, ptr, len) ==
    IF r.plat = "unix" THEN HostUnmap(h, ptr, len)
    ELSE IF r.mapped /\ ptr = r.base THEN HostUnmap(h, r.base, r.len)
    ELSE h

\* Drop for Map / MapMut
MapDrop ==
    /\ handle.state \in {"Map", "MapMut"}
    /\ LET calls == MapMut_drop(handle)
       IN /\ region' = [region EXCEPT !.unmaps = region.unmaps \o calls]
          /\ host' = IF calls = <<>> THEN host
                     ELSE os_unmap(host, region, calls[1][1], calls[1][2])
          /\ last' = MapCalled("drop", [h |-> handle],
                               [i \in 1..Len(calls) |->
                                   HostCall("unmap", calls[i][1], calls[i][2], "None")],
                               "Ok", "none")
    /\ handle' = [handle EXCEPT !.state = "dropped"]
    /\ UNCHANGED mapVars

NextMap ==
    \/ OptionsMapIf
    \/ OptionsAlloc
    \/ IntoMap
    \/ IntoMapMut
    \/ MapDrop

SpecMap == InitMap /\ [][NextMap]_vars

\* the range operations, on anonymous maps
InitMapRange == InitMapBuild({WideBits}, BOOLEAN)

NextMapRange ==
    \/ OptionsAlloc
    \/ MapRange
    \/ MapDrop

SpecMapRange == InitMapRange /\ [][NextMapRange]_vars

-----------------------------------------------------------------------------
(* Claims about Map and MapMut *)

\* the pages of the region the host mapped for the handle
RegionPages == PagesOf(region.base, region.len)

\* the region is unmapped by exactly one call, made with its base address and
\* a length that covers it
UnmappedOnce ==
    /\ Len(region.unmaps) = 1
    /\ region.unmaps[1][1] = region.base
    /\ region.unmaps[1][2] >= region.len
    /\ \A p \in RegionPages : host[p] = Free

\* the region is mapped and no unmap call was made
StillMapped ==
    /\ region.unmaps = <<>>
    /\ \A p \in RegionPages : host[p] # Free

\* C10: every region obtained from the host by Options::open / open_if / map
\* / map_if / alloc is unmapped exactly once, when its owning Map or MapMut
\* is dropped, with the base address the host returned and a length covering
\* the region; never earlier, twice, or not at all.
C10_UnmappedOnceOnDrop ==
    region.mapped =>
        IF handle.state = "dropped" THEN UnmappedOnce ELSE StillMapped

\* C10 for the handles that are not empty
C10_NonEmptyUnmappedOnceOnDrop ==
    (region.mapped /\ handle.len > 0) =>
        IF handle.state = "dropped" THEN UnmappedOnce ELSE StillMapped

\* a dropped handle whose pointer was not the base of its region
C10_DroppedInsideRegion ==
    /\ region.mapped
    /\ handle.state = "dropped"
    /\ handle.len > 0
    /\ handle.ptr > region.base

\* the protect calls among the host calls of the last operation
ProtectCalls == SelectSeq(last.host, LAMBDA c : c.fn = "protect")

\* C11: a successful MapMut::into_map makes the host's protect call with
\* ReadOnly, and a successful Map::into_map_mut makes it with ReadWrite.
C11_ConversionsProtect ==
    /\ (last.op = "into_map" /\ last.ret = "Ok") =>
            /\ Len(ProtectCalls) = 1
            /\ ProtectCalls[1].prot = "ReadOnly"
    /\ (last.op = "into_map_mut" /\ last.ret = "Ok") =>
            /\ Len(ProtectCalls) = 1
            /\ ProtectCalls[1].prot = "ReadWrite"

\* C11 for Map::into_map_mut alone
C11_IntoMapMutProtect ==
    (last.op = "into_map_mut" /\ last.ret = "Ok") =>
        /\ Len(ProtectCalls) = 1
        /\ ProtectCalls[1].prot = "ReadWrite"

Conversions == {"into_map", "into_map_mut"}

\* C12: if the host's protect call fails during into_map or into_map_mut,
\* the conversion returns Err((error, original)): the handle that comes
\* back is the original one, of the same type, pointer and length, and its
\* region is still mapped and was not unmapped. The conversion fails exactly
\* when the protect call does.
C12_FailedConversionKeepsHandle ==
    last.op \in Conversions =>
        /\ (last.ret = "Err") = (last.err # "none")
        /\ last.ret = "Err" =>
            /\ handle = last.arg.h
            /\ handle.state = (IF last.op = "into_map" THEN "MapMut" ELSE "Map")
            /\ region.mapped
            /\ StillMapped

\* a Map that is not empty came back from an into_map_mut the host refused
C12_RefusedIntoMapMut ==
    /\ last.op = "into_map_mut"
    /\ last.ret = "Err"
    /\ last.err = "denied"
    /\ handle.state = "Map"
    /\ handle.len > 0

\* a conversion of a file-backed map that did not fail for lack of resources
FileConversion ==
    /\ last.op \in Conversions
    /\ region.kind = "file"
    /\ last.err # "other"

RangeChecked(m, off, len) ==
    IF off + len > m.len
    THEN /\ last.ret = "InvalidRange"
         /\ last.host = <<>>
    ELSE /\ Len(last.host) = 1
         /\ last.host[1].fn = last.op
         /\ PagesOf(last.host[1].at, last.host[1].len) \subseteq RegionPages
         /\ last.ret = (IF last.err = "none" THEN "Ok" ELSE "Err")

\* C14: for every MapMut m and every off, len in the full usize range,
\* flush_range, advise_range, lock_range and unlock_range fail with the
\* InvalidRange input error, without making any host call, whenever
\* off + len > m.len as mathematical integers, and otherwise make the host
\* call and succeed when the host does.
C14_RangeChecked ==
    (last.op \in RangeOps /\ last.arg.h.state = "MapMut") =>
        RangeChecked(last.arg.h, last.arg.off, last.arg.len)

\* C14 for the arguments whose sum is a usize
C14_RangeCheckedWithoutOverflow ==
    (/\ last.op \in RangeOps
     /\ last.arg.h.state = "MapMut"
     /\ last.arg.off + last.arg.len < UsizeMod) =>
        RangeChecked(last.arg.h, last.arg.off, last.arg.len)

\* a host call was made for a range that ends beyond the map
C14_CallBeyondMap ==
    /\ last.op \in RangeOps
    /\ last.arg.h.state = "MapMut"
    /\ last.arg.off + last.arg.len > last.arg.h.len
    /\ last.host # <<>>

\* the range of the options o lies outside a file of L bytes
OutOfRange(o, L) ==
    \/ L < o.offset
    \/ o.len.tag \in {"Min", "Exact"} /\ o.len.n > L - o.offset

\* the map_file and map_anon calls among the host calls of the last operation
MapCalls == SelectSeq(last.host, LAMBDA c : c.fn \in {"map_file", "map_anon"})

\* C15: Options::map_if and open_if return Ok(None), and map and open
\* return the InvalidRange error, exactly when the resolved file length L is
\* less than the offset or the length extent is Min(l) or Exact(l) with
\* l > L - offset; then no host map call is made; and the *_if methods
\* return Err only when a host operation fails.
C15_NoneIffOutOfRange ==
    last.op = "map_if" =>
        /\ last.ret # "Err" =>
            (last.ret = "None") = OutOfRange(last.arg.o, Len(region.file))
        /\ (Options_map(last.ret) = "InvalidRange") = (last.ret = "None")
        /\ last.ret = "None" =>
            /\ MapCalls = <<>>
            /\ ~region.mapped
            /\ \A p \in AddrPages : host[p] = Free
        /\ last.ret = "Err" =>
            /\ last.err # "none"
            /\ MapCalls # <<>> => ~OutOfRange(last.arg.o, Len(region.file))
        /\ (last.ret = "Err") = (last.err # "none")

\* map_if returned None for an offset inside the file, because the length
\* extent asks for more than the file has
C15_NoneForLength ==
    /\ last.op = "map_if"
    /\ last.ret = "None"
    /\ last.arg.o.offset > 0
    /\ last.arg.o.offset < Len(region.file)
    /\ last.arg.o.len.tag = "Min"

\* C16: when the resolved file length L is at least the offset, with
\* max = L - offset, the length of the map returned by Options::map_if is
\* max for End; max for Min(l) with l <= max; min(l, max) for Max(l); and
\* l for Exact(l) with l <= max.
C16_MapLength ==
    (last.op = "map_if" /\ last.ret = "Ok") =>
        LET o == last.arg.o
            max == Len(region.file) - o.offset
        IN /\ max >= 0
           /\ o.len.tag = "End" => handle.len = max
           /\ o.len.tag = "Min" => o.len.n <= max /\ handle.len = max
           /\ o.len.tag = "Max" =>
                handle.len = (IF o.len.n <= max THEN o.len.n ELSE max)
           /\ o.len.tag = "Exact" => o.len.n <= max /\ handle.len = o.len.n

\* a map of Max(l) bytes from a file that has more than l bytes after the
\* offset
C16_MaxShorterThanFile ==
    /\ last.op = "map_if"
    /\ last.ret = "Ok"
    /\ last.arg.o.len.tag = "Max"
    /\ last.arg.o.len.n > 0
    /\ last.arg.o.len.n < Len(region.file) - last.arg.o.offset
    /\ handle.len = last.arg.o.len.n

\* every file call of the last map_if succeeded: it did not fail, or it
\* failed in map_file
FileCallsDone == last.ret # "Err" \/ MapCalls # <<>>

\* C17: before mapping, Options::map_if sets the file length according to
\* the resize extent: unchanged for End, s for Exact(s), max(L, s) for
\* Min(s) and min(L, s) for Max(s), where L is the file length after the
\* optional truncation; the offset and the length extent are then resolved
\* against this new length.
C17_ResizedBeforeMapping ==
    (last.op = "map_if" /\ FileCallsDone) =>
        LET o == last.arg.o
            L == IF o.truncate THEN 0 ELSE Len(last.arg.file)
            s == o.resize.n
            new == Len(region.file)
        IN /\ o.resize.tag = "End" => new = L
           /\ o.resize.tag = "Exact" => new = s
           /\ o.resize.tag = "Min" => new = (IF L >= s THEN L ELSE s)
           /\ o.resize.tag = "Max" => new = (IF L <= s THEN L ELSE s)
           /\ \A i \in 1..Len(last.host) :
                last.host[i].fn = "map_file" => i = Len(last.host)
           /\ last.ret # "Err" => (last.ret = "None") = OutOfRange(o, new)
           /\ (last.ret = "Ok" /\ o.len.tag = "End") =>
                handle.len = new - o.offset

\* resize(Min(s)) made the file longer and the map reaches the new end
C17_GrownByMin ==
    /\ last.op = "map_if"
    /\ last.ret = "Ok"
    /\ last.arg.o.resize.tag = "Min"
    /\ ~last.arg.o.truncate
    /\ last.arg.file # <<>>
    /\ last.arg.o.resize.n > Len(last.arg.file)
    /\ last.arg.o.len.tag = "End"
    /\ handle.len = last.arg.o.resize.n - last.arg.o.offset

\* byte i of the map, read through the page table: the byte of the file
\* behind it (0 after the end of the file, within its last page)
MapByte(i) ==
    LET pb == PhysByte(host, handle.ptr + i)
    IN IF pb[1] = "file"
       THEN IF pb[2] < Len(region.file) THEN region.file[pb[2] + 1] ELSE 0
       ELSE IF pb[1] = "anon" THEN 0
       ELSE Wild

\* C18: when the truncate flag is set and the file is not empty,
\* Options::map_if resizes the file to 0 before it applies the resize extent
\* and before it maps, so with truncate and resize(Exact(s)) the file is s
\* zero bytes, and the map (of length s with the default offset and length
\* extent) has only zero bytes whatever the file contained.
C18_TruncatedFirst ==
    (last.op = "map_if" /\ last.arg.o.truncate) =>
        LET o == last.arg.o
        IN /\ (last.arg.file # <<>> /\ Len(last.host) >= 2) =>
                last.host[2] = HostCall("set_len", 0, 0, "None")
           /\ (o.resize.tag = "Exact" /\ FileCallsDone) =>
                region.file = Zeros(o.resize.n)
           /\ (o.resize.tag = "Exact" /\ last.ret = "Ok") =>
                /\ \A i \in 0..(handle.len - 1) : MapByte(i) = 0
                /\ handle.len <= o.resize.n - o.offset
                /\ (o.offset = 0 /\ o.len.tag = "End") => handle.len = o.resize.n

\* a file of non-zero bytes was truncated and resized to its old length,
\* and mapped whole
C18_TruncatedAndMapped ==
    /\ last.op = "map_if"
    /\ last.ret = "Ok"
    /\ last.arg.o.truncate
    /\ last.arg.o.resize.tag = "Exact"
    /\ Len(last.arg.file) > 1
    /\ \A i \in 1..Len(last.arg.file) : last.arg.file[i] # 0
    /\ last.arg.o.resize.n = Len(last.arg.file)
    /\ handle.len = last.arg.o.resize.n

\* C19: for any offset off not beyond the resolved file length,
\* Options::map_if maps the file from off rounded down to the allocation
\* granularity and returns a handle whose pointer is the host's pointer plus
\* the residual and whose length is the resolved length, so byte i of the
\* map is byte off + i of the file for every 0 <= i < len.
C19_MapsFromOffset ==
    last.op = "map_if" =>
        LET off == last.arg.o.offset
            residual == off % Size_alloc
        IN /\ MapCalls # <<>> =>
                /\ Len(MapCalls) = 1
                /\ off <= Len(region.file)
                /\ MapCalls[1].at = off - residual
           /\ last.ret = "Ok" =>
                /\ MapCalls[1].len = handle.len + residual
                /\ handle.ptr = region.base + residual
                /\ handle.len <= Len(region.file) - off
                /\ \A i \in 0..(handle.len - 1) :
                    /\ PhysByte(host, handle.ptr + i) = <<"file", off + i>>
                    /\ MapByte(i) = region.file[off + i + 1]

\* a map that is not empty and starts between two multiples of the
\* allocation granularity
C19_MappedWithResidual ==
    /\ last.op = "map_if"
    /\ last.ret = "Ok"
    /\ last.arg.o.offset % Size_alloc # 0
    /\ handle.len > 0
    /\ handle.ptr > region.base

\* C20 as stated: every host call made by the builder satisfies the
\* alignment contract: each map_file call from Options::map_if passes an
\* offset that is a multiple of the allocation granularity and a length that
\* is a multiple of the page size, and each map_anon call from
\* Options::alloc passes a length that is a multiple of the page size.
C20_HostCallsAligned ==
    last.op \in {"map_if", "alloc"} =>
        \A i \in 1..Len(MapCalls) :
            /\ MapCalls[i].fn = "map_file" => MapCalls[i].at % Size_alloc = 0
            /\ MapCalls[i].len % Size_page = 0

\* C20, amended: each map_file call from Options::map_if passes an offset
\* that is a multiple of the allocation granularity, at most one granule
\* below the requested offset, and as length the resolved length plus the
\* residual of the offset, not rounded to pages. Each map_anon call from
\* Options::alloc passes the page residual of the offset plus the length,
\* which is a multiple of the allocation granularity for End and Min(l) and
\* is not rounded for Max(l) and Exact(l).
C20_OffsetsAligned ==
    /\ last.op = "map_if" =>
        \A i \in 1..Len(MapCalls) :
            LET c == MapCalls[i]
                off == last.arg.o.offset
            IN /\ c.fn = "map_file"
               /\ c.at % Size_alloc = 0
               /\ c.at % Size_page = 0
               /\ c.at <= off /\ off - c.at < Size_alloc
               /\ c.len >= off - c.at
               /\ last.ret = "Ok" => c.len = handle.len + (off - c.at)
    /\ last.op = "alloc" =>
        \A i \in 1..Len(MapCalls) :
            LET c == MapCalls[i]
                o == last.arg.o
            IN /\ c.fn = "map_anon"
               /\ o.len.tag \in {"End", "Min"} =>
                    c.len % Size_alloc = 0 /\ c.len % Size_page = 0
               /\ o.len.tag \in {"Max", "Exact"} =>
                    c.len = (o.offset % Size_page) + o.len.n
               /\ last.ret = "Ok" =>
                    c.len = handle.len + (o.offset % Size_page)

\* a file was mapped from an offset that is not 0
C20_MappedFromLaterGranule ==
    /\ last.op = "map_if"
    /\ last.ret = "Ok"
    /\ MapCalls # <<>>
    /\ MapCalls[1].at > 0
    /\ handle.len > 0

(***************************************************************************)
(* Size::round and Size::truncate over the whole usize range               *)
(***************************************************************************)

\* the sizes Size::with_size accepts: the powers of two of a usize
Sizes == {2^k : k \in 0..(usizeBits - 1)}

\* Size::round as the build computes it: `len + self.0` panics with overflow
\* checks when the sum is not a usize and wraps without; val is the value
\* returned when there is no panic
Size_round_call(S, len) ==
    IF overflowChecks /\ len + S >= UsizeMod THEN [panic |-> TRUE, val |-> 0]
    ELSE [panic |-> FALSE, val |-> Size_round(S, len)]

InitSize ==
    /\ usizeBits \in {NarrowBits, WideBits}
    /\ NoThreads
    /\ maps = <<>>
    /\ overflowChecks \in BOOLEAN
    /\ sys = [page |-> 1, alloc |-> 1]
    /\ \E S \in Sizes, n \in 0..UsizeMax :
        last = Called("with_size", [size |-> S, len |-> n],
                      [panic |-> FALSE, val |-> S])
    /\ region = [mapped |-> FALSE]
    /\ handle = [state |-> "none"]
    /\ host = [p \in AddrPages |-> Free]
    /\ call = NoCall
    /\ ring = [kind |-> "none"]
    /\ mem = <<>>
    /\ pending = <<>>
    /\ written = <<>>

sizeVars ==
    <<usizeBits, overflowChecks, sys, cacheVars, maps, ring, mem, pending, written, call,
      handle, region, host>>

\* S.truncate(n)
SizeTruncate ==
    /\ last.op = "with_size"
    /\ last' = Called("truncate", last.arg,
                      [panic |-> FALSE,
                       val |-> Size_truncate(last.arg.size, last.arg.len)])
    /\ UNCHANGED sizeVars

\* S.round(n)
SizeRound ==
    /\ last.op = "with_size"
    /\ last' = Called("round", last.arg,
                      Size_round_call(last.arg.size, last.arg.len))
    /\ UNCHANGED sizeVars

\* S.round(S.truncate(n))
SizeRoundTruncate ==
    /\ last.op = "with_size"
    /\ last' = Called("round_truncate", last.arg,
                      Size_round_call(last.arg.size,
                                      Size_truncate(last.arg.size, last.arg.len)))
    /\ UNCHANGED sizeVars

NextSize == SizeTruncate \/ SizeRound \/ SizeRoundTruncate

SpecSize == InitSize /\ [][NextSize]_vars

\* C30: for every power-of-two Size S and every n in the usize range,
\* S.round(S.truncate(n)) = S.truncate(n), and S.round(n) >= n > S.round(n) - S
C30_RoundLaws ==
    /\ last.op = "round_truncate" =>
          /\ ~last.ret.panic
          /\ last.ret.val = Size_truncate(last.arg.size, last.arg.len)
    /\ last.op = "round" =>
          /\ ~last.ret.panic
          /\ last.ret.val >= last.arg.len
          /\ last.arg.len > last.ret.val - last.arg.size

\* C30 for the n with n + S in the usize range
C30_RoundLawsBelowLastUnit ==
    /\ (last.op = "round_truncate" /\ last.arg.len + last.arg.size < UsizeMod) =>
          /\ ~last.ret.panic
          /\ last.ret.val = Size_truncate(last.arg.size, last.arg.len)
    /\ (last.op = "round" /\ last.arg.len + last.arg.size < UsizeMod) =>
          /\ ~last.ret.panic
          /\ last.ret.val >= last.arg.len
          /\ last.arg.len > last.ret.val - last.arg.size

\* a rounding returned less than its argument
C30_RoundedBelow ==
    /\ last.op = "round"
    /\ ~last.ret.panic
    /\ last.ret.val < last.arg.len

\* the pointer of the map that the last call of Options::alloc returned is
\* the base the host gave plus the offset modulo the page size, and its
\* length is exactly l with Exact(l) and at least l with Min(l),
\* Size::alloc().round(l) when the offset is 0
AllocPlaced ==
    LET o == last.arg.o
        off == o.offset % Size_page
    IN /\ handle.ptr = region.base + off
       /\ o.len.tag = "Exact" => handle.len = o.len.n
       /\ o.len.tag = "Min" =>
            /\ handle.len >= o.len.n
            /\ o.offset = 0 => handle.len = Size_round(Size_alloc, o.len.n)

-----------------------------------------------------------------------------
(* The host primitives: src/src/os/unix/mod.rs, src/src/os/windows.rs      *)

\* what a platform call can report: success, or failure with the error it
\* leaves in errno / GetLastError
Outcomes ==
    {[ok |-> TRUE, errno |-> "none"]}
        \cup {[ok |-> FALSE, errno |-> e] : e \in {"EINVAL", "ENOMEM"}}

\* the value a platform call returns: 0 or -1 from the int calls of unix,
\* nonzero or 0 from the BOOL calls of Windows, an address or MAP_FAILED
\* from mmap, an address or a handle or NULL from the calls of Windows
UnixInt(out) == IF out.ok THEN 0 ELSE 0 - 1
WinBool(out) == IF out.ok THEN 1 ELSE 0
MAP_FAILED == 0 - 1
UnixPtr(out) == IF out.ok THEN Size_page ELSE MAP_FAILED
WinPtr(out) == IF out.ok THEN Size_alloc ELSE 0

Ok == [ok |-> TRUE, op |-> "None", err |-> "none"]

\* Error::last_os_error(op) after the platform call with the outcome out
Error_last_os_error(op, out) == [ok |-> FALSE, op |-> op, err |-> out.errno]

\* result(op, pg) of os/unix/mod.rs
result(op, out) ==
    IF UnixPtr(out) = MAP_FAILED THEN Error_last_os_error(op, out) ELSE Ok

\* MapHandle::new(op, ..) and MapHandle::view(op, ..)
MapHandle_new(op, out) ==
    IF WinPtr(out) = 0 THEN Error_last_os_error(op, out) ELSE Ok

\* map_file: mmap on unix; CreateFileMappingW and MapViewOfFileEx on Windows
map_file(plat, outs) ==
    IF plat = "unix" THEN result("MapFile", outs[1])
    ELSE IF ~MapHandle_new("MapFileHandle", outs[1]).ok
         THEN MapHandle_new("MapFileHandle", outs[1])
         ELSE MapHandle_new("MapFileView", outs[2])

map_anon(plat, outs) ==
    IF plat = "unix" THEN result("MapAnonymous", outs[1])
    ELSE IF ~MapHandle_new("MapAnonymousHandle", outs[1]).ok
         THEN MapHandle_new("MapAnonymousHandle", outs[1])
         ELSE MapHandle_new("MapAnonymousView", outs[2])

\* unmap: `munmap(..) < 0` on unix, `UnmapViewOfFile(..) != 0` on Windows
unmap(plat, outs) ==
    IF plat = "unix"
    THEN IF UnixInt(outs[1]) < 0 THEN Error_last_os_error("Unmap", outs[1]) ELSE Ok
    ELSE IF WinBool(outs[1]) # 0 THEN Error_last_os_error("Unmap", outs[1]) ELSE Ok

\* protect: `mprotect(..) != 0`, `VirtualProtect(..) == 0`
protect(plat, outs) ==
    IF plat = "unix"
    THEN IF UnixInt(outs[1]) # 0 THEN Error_last_os_error("Protect", outs[1]) ELSE Ok
    ELSE IF WinBool(outs[1]) = 0 THEN Error_last_os_error("Protect", outs[1]) ELSE Ok

\* flush: `msync(..) < 0`; `FlushViewOfFile(..) == 0`, then for Flush::Sync
\* `FlushFileBuffers(..) == 0`
flush(plat, mode, outs) ==
    IF plat = "unix"
    THEN IF UnixInt(outs[1]) < 0 THEN Error_last_os_error("Flush", outs[1]) ELSE Ok
    ELSE IF WinBool(outs[1]) = 0 THEN Error_last_os_error("Flush", outs[1])
         ELSE IF mode = "Sync" /\ WinBool(outs[2]) = 0
              THEN Error_last_os_error("Flush", outs[2])
              ELSE Ok

\* advise: `madvise(..) < 0`; no call on Windows
advise(plat, outs) ==
    IF plat = "unix"
    THEN IF UnixInt(outs[1]) < 0 THEN Error_last_os_error("Advise", outs[1]) ELSE Ok
    ELSE Ok

\* lock: `mlock(..) < 0`, `VirtualLock(..) == 0`
lock(plat, outs) ==
    IF plat = "unix"
    THEN IF UnixInt(outs[1]) < 0 THEN Error_last_os_error("Lock", outs[1]) ELSE Ok
    ELSE IF WinBool(outs[1]) = 0 THEN Error_last_os_error("Lock", outs[1]) ELSE Ok

\* unlock: `munlock(..) < 0`, `VirtualUnlock(..) == 0`
unlock(plat, outs) ==
    IF plat = "unix"
    THEN IF UnixInt(outs[1]) < 0 THEN Error_last_os_error("Unlock", outs[1]) ELSE Ok
    ELSE IF WinBool(outs[1]) = 0 THEN Error_last_os_error("Unlock", outs[1]) ELSE Ok

Primitives ==
    {"map_file", "map_anon", "unmap", "protect", "flush", "advise", "lock", "unlock"}

\* the number of platform calls a primitive makes when none of them fails
PlatformCalls(plat, prim, mode) ==
    IF plat = "unix" THEN 1
    ELSE CASE prim \in {"map_file", "map_anon"} -> 2
           [] prim = "flush" -> IF mode = "Sync" THEN 2 ELSE 1
           [] prim = "advise" -> 0
           [] OTHER -> 1

InitOs == InitMapBuild({WideBits}, {FALSE})

\* a call of one of the primitives of the os module; the host answers its
\* platform calls with outs, and a call that is not made has no failure
OsCall ==
    /\ handle.state = "options"
    /\ \E prim \in Primitives, mode \in {"Sync", "Async"},
          o1 \in Outcomes, o2 \in Outcomes :
        LET plat == region.plat
            n == PlatformCalls(plat, prim, mode)
            outs == <<o1, o2>>
        IN /\ prim # "flush" => mode = "Sync"
           /\ n < 2 => o2.ok
           /\ n < 1 => o1.ok
           /\ ~o1.ok => o2.ok
           /\ last' = MapCalled(prim,
                                [plat |-> plat, mode |-> mode, outs |-> outs], <<>>,
                                CASE prim = "map_file" -> map_file(plat, outs)
                                  [] prim = "map_anon" -> map_anon(plat, outs)
                                  [] prim = "unmap" -> unmap(plat, outs)
                                  [] prim = "protect" -> protect(plat, outs)
                                  [] prim = "flush" -> flush(plat, mode, outs)
                                  [] prim = "advise" -> advise(plat, outs)
                                  [] prim = "lock" -> lock(plat, outs)
                                  [] OTHER -> unlock(plat, outs),
                                "none")
    /\ UNCHANGED <<handle, region, host, mapVars>>

SpecOs == InitOs /\ [][OsCall]_vars

\* the Operation tags of each primitive
OwnTags(prim) ==
    CASE prim = "map_file" -> {"MapFile", "MapFileHandle", "MapFileView"}
      [] prim = "map_anon" -> {"MapAnonymous", "MapAnonymousHandle", "MapAnonymousView"}
      [] prim = "unmap" -> {"Unmap"}
      [] prim = "protect" -> {"Protect"}
      [] prim = "flush" -> {"Flush"}
      [] prim = "advise" -> {"Advise"}
      [] prim = "lock" -> {"Lock"}
      [] OTHER -> {"Unlock"}

\* the primitive returned Ok exactly when its platform calls reported
\* success, and otherwise an Error with a tag of its own and the error of
\* the call that failed
WrapsOutcome ==
    LET outs == last.arg.outs
        failed == {i \in 1..2 : ~outs[i].ok}
    IN /\ last.ret.ok = (failed = {})
       /\ ~last.ret.ok =>
            /\ last.ret.op \in OwnTags(last.op)
            /\ \E i \in failed : last.ret.err = outs[i].errno

\* C28: each host primitive (map_file, map_anon, unmap, protect, flush,
\* advise, lock, unlock) returns Ok exactly when its platform call reports
\* success, and otherwise an Error carrying that primitive's own Operation
\* tag and the host error.
C28_WrapsOutcome ==
    last.op \in Primitives => WrapsOutcome

\* C28 for every primitive but unmap on Windows
C28_WrapsOutcomeButWindowsUnmap ==
    (last.op \in Primitives /\ ~(last.op = "unmap" /\ last.arg.plat = "windows")) =>
        WrapsOutcome

\* unmap returned an error for a view that the host unmapped
C28_UnmappedWithError ==
    /\ last.op = "unmap"
    /\ last.arg.outs[1].ok
    /\ ~last.ret.ok

-----------------------------------------------------------------------------
(* The cached sizes: page_size, allocation_size, load_system_info of       *)
(* src/src/lib.rs                                                          *)

\* Number of threads that call page_size() and allocation_size().
MaxThreads == 2
\* Calls each thread makes.
MaxCalls == 2

Threads == 1..MaxThreads

SizeFns == {"page_size", "allocation_size"}

\* the values a Relaxed load of a cached word can return to a thread: the
\* value stored, and the initial 0 as long as the thread has neither stored
\* the word nor loaded its stored value (seen)
Relaxed_load(word, seen) ==
    {word} \cup (IF seen THEN {} ELSE {0})

\* a faulty variant: the two words are stored the wrong way round
load_system_info_swapped(info) == [page |-> info.alloc, alloc |-> info.page]

\* the values load_system_info stores into PAGE_SIZE and ALLOC_SIZE
load_system_info(info) == [page |-> info.page, alloc |-> info.alloc]

InitSizeCache ==
    /\ usizeBits = WideBits
    /\ overflowChecks = FALSE
    /\ sys \in SystemInfos
    /\ PAGE_SIZE = 0
    /\ ALLOC_SIZE = 0
    /\ threads = [t \in Threads |->
                    [pc |-> "idle", fn |-> "none", calls |-> 0, ret |-> 0,
                     info |-> [page |-> 0, alloc |-> 0],
                     seenPage |-> FALSE, seenAlloc |-> FALSE]]
    /\ maps = <<>>
    /\ region = [mapped |-> FALSE]
    /\ handle = [state |-> "none"]
    /\ host = [p \in AddrPages |-> Free]
    /\ call = [pc |-> "none"]
    /\ ring = [kind |-> "none"]
    /\ mem = <<>>
    /\ pending = <<>>
    /\ written = <<>>
    /\ last = [op |-> "none", arg |-> 0, ret |-> 0]

cacheOthers ==
    <<usizeBits, overflowChecks, sys, maps, ring, mem, pending, written, last,
      host, call, handle, region>>

\* a thread calls page_size() or allocation_size()
SizeCall ==
    \E t \in Threads, fn \in SizeFns :
        /\ threads[t].pc = "idle"
        /\ threads[t].calls < MaxCalls
        /\ threads' = [threads EXCEPT ![t].pc = "load", ![t].fn = fn,
                                      ![t].calls = @ + 1]
        /\ UNCHANGED <<PAGE_SIZE, ALLOC_SIZE, cacheOthers>>

\* `let size = PAGE_SIZE.load(Ordering::Relaxed)` (ALLOC_SIZE in
\* allocation_size) and the test `size == 0`: the call returns a size that
\* is not 0
SizeLoad ==
    \E t \in Threads :
        LET th == threads[t]
            page == th.fn = "page_size"
        IN /\ th.pc = "load"
           /\ \E size \in Relaxed_load(IF page THEN PAGE_SIZE ELSE ALLOC_SIZE,
                                   IF page THEN th.seenPage ELSE th.seenAlloc) :
                threads' =
                    IF size = 0
                    THEN [threads EXCEPT ![t].pc = "system_info"]
                    ELSE [threads EXCEPT ![t].pc = "idle", ![t].ret = size,
                                         ![t].seenPage = th.seenPage \/ page,
                                         ![t].seenAlloc = th.seenAlloc \/ ~page]
           /\ UNCHANGED <<PAGE_SIZE, ALLOC_SIZE, cacheOthers>>

\* load_system_info: `let (page, alloc) = self::os::system_info()`
SizeSystemInfo ==
    \E t \in Threads :
        /\ threads[t].pc = "system_info"
        /\ threads' = [threads EXCEPT ![t].pc = "store_page",
                                      ![t].info = load_system_info(sys)]
        /\ UNCHANGED <<PAGE_SIZE, ALLOC_SIZE, cacheOthers>>

\* load_system_info: `PAGE_SIZE.store(page as usize, Ordering::Relaxed)`
SizeStorePage ==
    \E t \in Threads :
        /\ threads[t].pc = "store_page"
        /\ PAGE_SIZE' = threads[t].info.page
        /\ threads' = [threads EXCEPT ![t].pc = "store_alloc", ![t].seenPage = TRUE]
        /\ UNCHANGED <<ALLOC_SIZE, cacheOthers>>

\* load_system_info: `ALLOC_SIZE.store(alloc as usize, Ordering::Relaxed)`,
\* and the call returns its half of the pair
SizeStoreAlloc ==
    \E t \in Threads :
        /\ threads[t].pc = "store_alloc"
        /\ ALLOC_SIZE' = threads[t].info.alloc
        /\ threads' = [threads EXCEPT
                         ![t].pc = "idle", ![t].seenAlloc = TRUE,
                         ![t].ret = IF threads[t].fn = "page_size"
                                    THEN threads[t].info.page
                                    ELSE threads[t].info.alloc]
        /\ UNCHANGED <<PAGE_SIZE, cacheOthers>>

NextSizeCache ==
    \/ SizeCall
    \/ SizeLoad
    \/ SizeSystemInfo
    \/ SizeStorePage
    \/ SizeStoreAlloc

SpecSizeCache == InitSizeCache /\ [][NextSizeCache]_vars

\* every call that has returned returned what system_info reports, which
\* is not 0
ReturnsSystemInfo ==
    \A t \in DOMAIN threads :
        (threads[t].pc = "idle" /\ threads[t].calls > 0) =>
            /\ threads[t].ret # 0
            /\ threads[t].ret = IF threads[t].fn = "page_size"
                                THEN sys.page ELSE sys.alloc

\* a cached word that has been written keeps its value
WrittenOnce ==
    /\ PAGE_SIZE # 0 => PAGE_SIZE' = PAGE_SIZE
    /\ ALLOC_SIZE # 0 => ALLOC_SIZE' = ALLOC_SIZE

\* C29: under any interleaving of threads calling page_size() and
\* allocation_size(), several first callers racing included, every call
\* returns the value reported by the host's system_info (never 0, never a
\* stale or mixed value), and a cached word that has been written never
\* changes its value.
C29_CachedSizes ==
    /\ []ReturnsSystemInfo
    /\ [][WrittenOnce]_vars

\* two first callers raced: a thread stores the sizes after another thread
\* has stored them and returned
C29_RacedFirstCalls ==
    \E t \in DOMAIN threads, u \in DOMAIN threads :
        /\ t # u
        /\ threads[t].pc = "store_alloc"
        /\ PAGE_SIZE # 0 /\ ALLOC_SIZE # 0
        /\ threads[u].pc = "idle" /\ threads[u].calls > 0
        /\ sys.page # sys.alloc

-----------------------------------------------------------------------------
(* Several mappings of one file: Options::write, Options::copy and map_file *)

\* Number of mappings made of the file.
MaxMaps == 2

\* the protection and the sharing that map_file asks of the host: PROT_WRITE
\* and MAP_SHARED / MAP_PRIVATE for mmap, PAGE_READWRITE / PAGE_WRITECOPY and
\* FILE_MAP_WRITE / FILE_MAP_COPY for the view. A faulty variant maps
\* Protect::ReadCopy shared.
map_file_flags_shared(plat, prot) ==
    [write |-> prot # "ReadOnly", private |-> FALSE]

map_file_flags(plat, prot) ==
    CASE prot = "ReadOnly" -> [write |-> FALSE, private |-> FALSE]
      [] prot = "ReadWrite" -> [write |-> TRUE, private |-> FALSE]
      [] OTHER -> [write |-> TRUE, private |-> TRUE]

\* the pages of a file of flen bytes
FilePages(flen) == 0..((flen - 1) \div Size_page)

\* the page the i-th byte of the file lies on
PageOf(i) == (i - 1) \div Size_page

\* the bytes of the page p of the file f
FilePage(f, p) ==
    SubSeq(f, p * Size_page + 1, Min((p + 1) * Size_page, Len(f)))

\* the i-th byte of the file f as the mapping m shows it: the byte of the
\* mapping's own copy of the page when it has one, the file's otherwise
MapView(m, f, i) ==
    IF m.copies[PageOf(i)] # <<>>
    THEN m.copies[PageOf(i)][i - PageOf(i) * Size_page]
    ELSE f[i]

\* the host's store of the byte b through the mapping m at the i-th byte:
\* a private mapping gets its own copy of the page on the first store, a
\* shared mapping stores into the file's page
HostStore(m, f, i, b) ==
    LET p == PageOf(i)
        page == IF m.copies[p] # <<>> THEN m.copies[p] ELSE FilePage(f, p)
    IN IF m.private
       THEN [maps |-> [m EXCEPT !.copies[p] =
                                   [page EXCEPT ![i - p * Size_page] = b]],
             file |-> f]
       ELSE [maps |-> m, file |-> [f EXCEPT ![i] = b]]

InitCopy ==
    /\ usizeBits = WideBits
    /\ overflowChecks = FALSE
    /\ NoThreads
    /\ maps = <<>>
    /\ \E plat \in {"unix", "windows"}, f \in SeqsUpTo(MaxFile) \ {<<>>},
          writable \in BOOLEAN :
        /\ sys \in {s \in SystemInfos :
                      IF plat = "windows" THEN s.alloc >= s.page
                      ELSE s.alloc = s.page}
        /\ region = [mapped |-> FALSE, plat |-> plat, base |-> 0, len |-> 0,
                     kind |-> "file", prot |-> "None", off |-> 0,
                     file |-> f, writable |-> writable, unmaps |-> <<>>]
    /\ handle = [state |-> "options", ptr |-> 0, len |-> 0, prot |-> "None"]
    /\ host = [p \in AddrPages |-> Free]
    /\ call = NoCall
    /\ ring = [kind |-> "none"]
    /\ mem = <<>>
    /\ pending = <<>>
    /\ written = <<>>
    /\ last = MapCalled("new", 0, <<>>, "Ok", "none")

copyVars ==
    <<usizeBits, overflowChecks, sys, cacheVars, ring, mem, pending, written,
      host, call, handle>>

\* Options::map of the whole file with the protection of Options::write,
\* Options::copy or neither
CopyMap ==
    /\ Len(maps) < MaxMaps
    /\ \E o \in {x \in OptionsSet : /\ x.offset = 0 /\ x.len.tag = "End"
                                    /\ x.resize.tag = "End" /\ ~x.truncate} :
        /\ ~HostFileRefused(region.plat, region.writable, Len(region.file),
                            0, Len(region.file), o.protect)
        /\ maps' = Append(maps,
                     [T |-> o.T, prot |-> o.protect,
                      private |-> map_file_flags(region.plat, o.protect).private,
                      copies |-> [p \in FilePages(Len(region.file)) |-> <<>>]])
        /\ last' = MapCalled("map", [o |-> o], <<>>, "Ok", "none")
    /\ UNCHANGED <<region, copyVars>>

\* a store through the slice of a MapMut (DerefMut)
CopyWrite ==
    /\ \E m \in DOMAIN maps, i \in 1..Len(region.file), b \in 0..MaxByte :
        /\ maps[m].T = "MapMut"
        /\ LET st == HostStore(maps[m], region.file, i, b)
           IN /\ maps' = [maps EXCEPT ![m] = st.maps]
              /\ region' = [region EXCEPT !.file = st.file]
        /\ last' = MapCalled("write", [m |-> m, i |-> i, b |-> b], <<>>, "Ok", "none")
    /\ UNCHANGED copyVars

NextCopy == CopyMap \/ CopyWrite

SpecCopy == InitCopy /\ [][NextCopy]_vars

\* a store through a mapping made with copy() changes neither the file nor
\* what any other mapping shows
CopyWriteIsPrivate ==
    (last'.op = "write" /\ maps[last'.arg.m].prot = "ReadCopy") =>
        /\ region'.file = region.file
        /\ \A k \in DOMAIN maps \ {last'.arg.m}, i \in 1..Len(region.file) :
              MapView(maps'[k], region'.file, i) = MapView(maps[k], region.file, i)

\* C22: a mapping created with copy() (ReadCopy) is private: a write made
\* through it is never visible through any other mapping of the same file,
\* another copy() mapping included, nor in the file itself.
C22_CopyIsPrivate == [][CopyWriteIsPrivate]_vars

\* a byte written through one copy() mapping differs from the file's and
\* from what another copy() mapping shows
C22_WrittenThroughCopy ==
    /\ last.op = "write"
    /\ \E m \in DOMAIN maps, k \in DOMAIN maps :
        /\ m # k
        /\ maps[m].prot = "ReadCopy" /\ maps[k].prot = "ReadCopy"
        /\ last.arg.m = m
        /\ MapView(maps[m], region.file, last.arg.i) = last.arg.b
        /\ region.file[last.arg.i] # last.arg.b
        /\ MapView(maps[k], region.file, last.arg.i) = region.file[last.arg.i]

-----------------------------------------------------------------------------
(* Claims about the offsets and the cursors of the rings *)

\* the logical read cursor: rpos of a Ring, wpos - rlen of an InfiniteRing
ReadCursor(r) == IF r.kind = "Ring" THEN r.rpos ELSE r.wpos - r.rlen

\* the offsets are the cursors modulo the capacity
OffsetsReduced(r) ==
    /\ read_offset(r) = ReadCursor(r) % r.len
    /\ write_offset(r) = r.wpos % r.len
    /\ (read_offset(r) + read_len(r)) % r.len = write_offset(r)

\* C37: on both ring types read_offset() is the logical read cursor modulo N
\* and write_offset() is wpos modulo N for every reachable value of the
\* 64-bit cursors, values beyond the range of usize included, so that
\* (read_offset() + read_len()) mod N = write_offset() in every reachable
\* state.
C37_OffsetsAreCursorsModN ==
    ring.kind \in {"Ring", "InfiniteRing"} => OffsetsReduced(ring)

\* C37 where usize is as wide as the cursors
C37_OffsetsAreCursorsModNWide ==
    (ring.kind \in {"Ring", "InfiniteRing"} /\ usizeBits = WideBits) =>
        OffsetsReduced(ring)

\* C37 for the capacities that divide the range of usize
C37_OffsetsAreCursorsModNPowerOfTwo ==
    (ring.kind \in {"Ring", "InfiniteRing"} /\ UsizeMod % ring.len = 0) =>
        OffsetsReduced(ring)

\* a write cursor beyond the range of usize whose offset is not the cursor
\* modulo the capacity
C37_OffsetJumped ==
    /\ ring.kind \in {"Ring", "InfiniteRing"}
    /\ ring.wpos >= UsizeMod
    /\ write_offset(ring) # ring.wpos % ring.len

-----------------------------------------------------------------------------
(* InfiniteRing: the readable length never passes the write cursor *)

\* C38: in every reachable state of an InfiniteRing rlen <= wpos, so the
\* unsigned subtraction wpos - rlen of read_offset() does not wrap, also
\* after feed(k) with k greater than the capacity.
C38_ReadLenWithinWritten ==
    ring.kind = "InfiniteRing" =>
        /\ ring.rlen <= ring.wpos
        /\ U64Sub(ring.wpos, ring.rlen) = ring.wpos - ring.rlen

\* a feed of more than the capacity has been made
C38_FedBeyondCapacity ==
    /\ ring.kind = "InfiniteRing"
    /\ last.op = "feed"
    /\ last.arg > ring.len
    /\ ring.rlen = ring.len
    /\ ring.wpos > ring.len

-----------------------------------------------------------------------------
(* Ring::new and InfiniteRing::new on any host *)

\* the ring returned by Ring::new(hint) or InfiniteRing::new(hint) on a host
\* whose allocation granularity is a multiple of its page size, then driven
\* through the ring operations
InitRingNew ==
    /\ usizeBits \in {NarrowBits, WideBits}
    /\ NoThreads
    /\ maps = <<>>
    /\ overflowChecks = FALSE
    /\ sys \in {s \in SystemInfos : s.alloc >= s.page}
    /\ \E hint \in 1..MaxHint : \E new \in {Ring_new(hint), InfiniteRing_new(hint)} :
        /\ 2 * new.len < UsizeMod
        /\ ring = new
        /\ mem = FreshMem(new.len)
        /\ last = Called("new", hint, new.len)
    /\ pending = <<>>
    /\ written = <<>>
    /\ host = <<>>
    /\ call = NoCall
    /\ handle = NoHandle
    /\ region = NoRegion

SpecRingNew == InitRingNew /\ [][NextRings]_vars

\* the ring is empty and all of its capacity is writable
EmptyRing(r) ==
    /\ read_len(r) = 0
    /\ write_len(r) = write_capacity(r)
    /\ write_capacity(r) = r.len

\* a bounded Ring's readable and writable lengths add up to the capacity
RingLengthsAddUp ==
    ring.kind = "Ring" => read_len(ring) + write_len(ring) = write_capacity(ring)

C33_RingPartlyFull ==
    /\ ring.kind = "Ring"
    /\ sys.alloc > sys.page
    /\ read_len(ring) > 0
    /\ write_len(ring) > 0

-----------------------------------------------------------------------------
(* Size::bounds over the whole usize range *)

\* Size::bounds as the build computes it: `len + off` and the addition inside
\* round panic with overflow checks when the sum is not a usize and wrap
\* without; ptr and len are the pair returned when there is no panic
Size_bounds_call(S, ptr, len) ==
    LET off == Size_offset(S, ptr)
    IN IF overflowChecks /\ len + off >= UsizeMod
       THEN [panic |-> TRUE, ptr |-> 0, len |-> 0]
       ELSE IF Size_round_call(S, UsizeAdd(len, off)).panic
       THEN [panic |-> TRUE, ptr |-> 0, len |-> 0]
       ELSE [panic |-> FALSE, ptr |-> Size_bounds(S, ptr, len).ptr,
             len |-> Size_bounds(S, ptr, len).len]

InitBounds ==
    /\ usizeBits \in {NarrowBits, WideBits}
    /\ NoThreads
    /\ maps = <<>>
    /\ overflowChecks \in BOOLEAN
    /\ sys = [page |-> 1, alloc |-> 1]
    /\ \E S \in Sizes, p \in 0..UsizeMax, l \in 0..UsizeMax :
        last = Called("with_size", [size |-> S, ptr |-> p, len |-> l],
                      [panic |-> FALSE, ptr |-> p, len |-> l])
    /\ region = [mapped |-> FALSE]
    /\ handle = [state |-> "none"]
    /\ host = [p \in AddrPages |-> Free]
    /\ call = NoCall
    /\ ring = [kind |-> "none"]
    /\ mem = <<>>
    /\ pending = <<>>
    /\ written = <<>>

\* S.bounds(p, l)
SizeBounds ==
    /\ last.op = "with_size"
    /\ last' = Called("bounds", last.arg,
                      Size_bounds_call(last.arg.size, last.arg.ptr, last.arg.len))
    /\ UNCHANGED sizeVars

SpecBounds == InitBounds /\ [][SizeBounds]_vars

\* the pair (base, n) is what the claim says of S.bounds(p, l)
UnitBounds(S, p, l, base, n) ==
    /\ base = p - (p % S)
    /\ n = S * ((l + (p % S) + S - 1) \div S)
    /\ base % S = 0
    /\ base <= p
    /\ n % S = 0
    /\ base + n >= p + l
    /\ p - base < S
    /\ (base + n) - (p + l) < S

\* C31: for every power-of-two Size S, pointer p and length l, S.bounds(p, l)
\* returns (p - offset(p), round(l + offset(p))): an S-aligned base not above
\* p and an S-multiple length whose range contains [p, p + l) and extends
\* less than S bytes beyond it at either end.
C31_Bounds ==
    last.op = "bounds" =>
        /\ ~last.ret.panic
        /\ UnitBounds(last.arg.size, last.arg.ptr, last.arg.len,
                      last.ret.ptr, last.ret.len)

\* C31 for the p and l with l + offset(p) + S in the usize range
C31_BoundsBelowLastUnit ==
    (/\ last.op = "bounds"
     /\ last.arg.len + (last.arg.ptr % last.arg.size) + last.arg.size < UsizeMod) =>
        /\ ~last.ret.panic
        /\ UnitBounds(last.arg.size, last.arg.ptr, last.arg.len,
                      last.ret.ptr, last.ret.len)

\* a call of bounds returned a range that ends before p + l
C31_BoundsShort ==
    /\ last.op = "bounds"
    /\ ~last.ret.panic
    /\ last.ret.ptr + last.ret.len < last.arg.ptr + last.arg.len

\* a call of bounds returned whole units around a range that is not aligned
C31_BoundsWidened ==
    /\ last.op = "bounds"
    /\ ~last.ret.panic
    /\ last.ret.ptr < last.arg.ptr
    /\ last.ret.ptr + last.ret.len > last.arg.ptr + last.arg.len
    /\ last.ret.len > last.arg.size

-----------------------------------------------------------------------------
(* The unit each host call of Map and MapMut is rounded to *)

WholeOps == {"flush", "advise", "lock", "unlock"}

\* the host call of flush, advise, lock and unlock:
\* Size::page().bounds(self.ptr, self.len)
MapMut_whole_call(h, op) ==
    LET b == Size_bounds(Size_page, h.ptr, h.len)
    IN HostCall(op, b.ptr, b.len, "None")

\* MapMut::flush, and advise / lock / unlock of Map and MapMut
MapWhole ==
    /\ handle.state \in {"Map", "MapMut"}
    /\ \E op \in WholeOps, ok \in BOOLEAN :
        /\ op = "flush" => handle.state = "MapMut"
        /\ last' = MapCalled(op, [h |-> handle, off |-> 0, len |-> handle.len],
                             <<MapMut_whole_call(handle, op)>>,
                             IF ok THEN "Ok" ELSE "Err",
                             IF ok THEN "none" ELSE "other")
    /\ UNCHANGED <<handle, region, host, mapVars>>

\* anonymous maps with every operation of the handle
NextMapCalls ==
    \/ OptionsAlloc
    \/ IntoMap
    \/ IntoMapMut
    \/ MapWhole
    \/ MapRange
    \/ MapDrop

SpecMapCalls == InitMapRange /\ [][NextMapCalls]_vars

\* the whole units of S around [p, p + l), in usize arithmetic
UnitsAround(S, p, l) ==
    [ptr |-> p - (p % S),
     len |-> (S * ((((l + (p % S)) % UsizeMod) + S - 1) \div S)) % UsizeMod]

\* the host call c is made over the units of S around [p, p + l); addresses
\* are compared as the machine holds them, modulo the usize range
CallOver(c, S, p, l) ==
    /\ (c.at - UnitsAround(S, p, l).ptr) % UsizeMod = 0
    /\ c.len = UnitsAround(S, p, l).len

\* the address the range starts at: self.ptr.add(off) in usize arithmetic
RangeStart(h, off) == (h.ptr + off) % UsizeMod

\* C32: every host protect, flush, advise, lock and unlock call issued by Map
\* or MapMut is made over bounds computed with the page size, and every host
\* unmap call issued on drop is made over bounds computed with the
\* allocation granularity.
C32_CallsOverUnits ==
    last.op \in {"into_map", "into_map_mut", "drop"} \cup WholeOps \cup RangeOps =>
        \A i \in 1..Len(last.host) :
            CASE last.host[i].fn = "unmap" ->
                    CallOver(last.host[i], sys.alloc, last.arg.h.ptr, last.arg.h.len)
              [] last.host[i].fn = "protect" ->
                    CallOver(last.host[i], sys.page, last.arg.h.ptr, last.arg.h.len)
              [] last.host[i].fn \in WholeOps ->
                    CallOver(last.host[i], sys.page, last.arg.h.ptr, last.arg.h.len)
              [] last.host[i].fn \in RangeOps ->
                    CallOver(last.host[i], sys.page,
                             RangeStart(last.arg.h, last.arg.off), last.arg.len)
              [] OTHER -> FALSE

\* a handle whose page bounds and allocation bounds differ was dropped, and
\* the host was asked to unmap the allocation bounds
C32_DroppedOverAllocationUnits ==
    /\ last.op = "drop"
    /\ Len(last.host) = 1
    /\ UnitsAround(sys.page, last.arg.h.ptr, last.arg.h.len)
         # UnitsAround(sys.alloc, last.arg.h.ptr, last.arg.h.len)
    /\ last.host[1].len > UnitsAround(sys.page, last.arg.h.ptr, last.arg.h.len).len

\* an operation on such a handle called the host over the page bounds
C32_CalledOverPages ==
    /\ last.op \in {"into_map", "into_map_mut"} \cup WholeOps \cup RangeOps
    /\ Len(last.host) = 1
    /\ UnitsAround(sys.page, last.arg.h.ptr, last.arg.h.len)
         # UnitsAround(sys.alloc, last.arg.h.ptr, last.arg.h.len)

-----------------------------------------------------------------------------
(* Options::map_if changes the file before it validates the range *)

\* the file's length after the truncate flag and the resize extent of o were
\* applied to a file of flen bytes
LengthRequested(o, flen) ==
    LET cut == IF o.truncate THEN 0 ELSE flen
    IN CASE o.resize.tag = "Exact" -> o.resize.n
         [] o.resize.tag = "Min" -> IF o.resize.n > cut THEN o.resize.n ELSE cut
         [] o.resize.tag = "Max" -> IF o.resize.n < cut THEN o.resize.n ELSE cut
         [] OTHER -> cut

\* the file f with the truncate flag and the resize extent of o applied
FileRequested(o, f) ==
    LET kept == IF o.truncate THEN <<>> ELSE f
        n == LengthRequested(o, Len(f))
    IN IF n <= Len(kept) THEN Take(kept, n) ELSE kept \o Zeros(n - Len(kept))

\* map_if returned Ok(None), which map turns into InvalidRange
ReturnedNone ==
    /\ last.op = "map_if"
    /\ Options_map(last.ret) = "InvalidRange"

\* C39: Options::map_if applies the truncate flag and the resize extent to
\* the file before it validates the requested offset and length, so these
\* changes of the file persist when the call returns Ok(None) (or map
\* returns InvalidRange) and no mapping is created.
C39_FileChangedBeforeValidation ==
    ReturnedNone =>
        /\ region.file = FileRequested(last.arg.o, last.arg.file)
        /\ Len(region.file) = LengthRequested(last.arg.o, Len(last.arg.file))
        /\ ~region.mapped
        /\ handle.state = "None"
        /\ \A p \in AddrPages : host[p] = Free

\* map_if returned Ok(None) and left the file with another length
C39_ResizedWithoutMapping ==
    /\ ReturnedNone
    /\ ~region.mapped
    /\ Len(region.file) # Len(last.arg.file)

\* map_if returned Ok(None) and left a file that had contents empty
C39_TruncatedWithoutMapping ==
    /\ ReturnedNone
    /\ last.arg.o.truncate
    /\ Len(last.arg.file) > 0
    /\ region.file = <<>>

-----------------------------------------------------------------------------
(* os::unix::map_anon: the flags of the request *)

\* the flags and the descriptor map_anon gives to mmap for each Protect
map_anon_flags(prot) ==
    CASE prot = "ReadOnly" -> [flags |-> {"MAP_SHARED"}, fd |-> 0 - 1]
      [] prot = "ReadWrite" -> [flags |-> {"MAP_ANON", "MAP_SHARED"}, fd |-> 0 - 1]
      [] OTHER -> [flags |-> {"MAP_ANON", "MAP_PRIVATE"}, fd |-> 0 - 1]

\* mmap refuses a request that is not anonymous and names no open descriptor
MmapBadDescriptor(req) == "MAP_ANON" \notin req.flags /\ req.fd < 0

\* Options::alloc was called on a POSIX host
AllocOnUnix ==
    /\ last.op = "alloc"
    /\ region.plat = "unix"

\* C40: for every Protect value the POSIX map_anon requests an anonymous
\* mapping that is not backed by a file (MAP_ANON with descriptor -1), so
\* Options::alloc behaves the same for a read-only Map as for a MapMut: the
\* host does not refuse the request as such.
C40_AnonymousForEveryProtect ==
    AllocOnUnix =>
        /\ "MAP_ANON" \in map_anon_flags(last.host[1].prot).flags
        /\ map_anon_flags(last.host[1].prot).fd = 0 - 1
        /\ last.err # "denied"

\* C40 for the Protect values other than ReadOnly: the host refuses only a
\* request of no bytes
C40_AnonymousForWritableProtect ==
    (AllocOnUnix /\ last.host[1].prot # "ReadOnly") =>
        /\ "MAP_ANON" \in map_anon_flags(last.host[1].prot).flags
        /\ map_anon_flags(last.host[1].prot).fd = 0 - 1
        /\ last.err = "denied" => last.host[1].len = 0

\* every Options::alloc of a read-only Map on a POSIX host fails
C40_ReadOnlyAllocFails ==
    (AllocOnUnix /\ last.arg.o.protect = "ReadOnly") =>
        /\ MmapBadDescriptor(map_anon_flags(last.host[1].prot))
        /\ last.ret = "Err"
        /\ last.err = "denied"

\* Options::alloc of a read-only Map was refused by the host
C40_ReadOnlyAllocRefused ==
    /\ AllocOnUnix
    /\ last.arg.o.T = "Map"
    /\ last.arg.o.protect = "ReadOnly"
    /\ last.host[1].len > 0
    /\ last.ret = "Err"
    /\ last.err = "denied"

-----------------------------------------------------------------------------
(***************************************************************************)
(* BufWriter: src/src/io/buffer.rs. A Ring in front of an inner writer     *)
(* that may accept a part of what it is given, be interrupted, or fail.    *)
(* pending holds the bytes write has reported as accepted and the inner    *)
(* writer has not been given yet, in order; written stays empty until the  *)
(* inner writer is given bytes that are not the front of pending, and then *)
(* holds the first byte that differs.                                      *)
(***************************************************************************)

IoOk(n) == [kind |-> "Ok", n |-> n]
IoErr(kind) == [kind |-> kind, n |-> 0]

\* what a call of the inner writer's write with n bytes can return
InnerWrites(n) ==
    {IoOk(k) : k \in 0..n} \cup {IoErr("Interrupted"), IoErr("Other")}

\* SeqRead::is_empty
is_empty(r) == read_len(r) = 0

\* the whole readable slice: as_read_slice(std::usize::MAX)
Buffered(r, m) == as_read_slice(r, m, UsizeMax)

\* write reported the bytes d as accepted
Accepted(d) ==
    IF written # <<>> THEN [pending |-> pending, written |-> written]
    ELSE [pending |-> pending \o d, written |-> written]

\* the first byte of d that is not the byte of acc at its place
FirstOff(acc, d) ==
    LET off == {i \in 1..Len(d) : i > Len(acc) \/ acc[i] # d[i]}
    IN d[CHOOSE i \in off : \A j \in off : i <= j]

\* the inner writer took the bytes d, after write accepted the bytes a
Delivered(a, d) ==
    LET acc == pending \o a
    IN IF written # <<>> THEN [pending |-> pending, written |-> written]
       ELSE IF Len(d) <= Len(acc) /\ Take(acc, Len(d)) = d
       THEN [pending |-> Drop(acc, Len(d)), written |-> <<>>]
       ELSE [pending |-> acc, written |-> <<FirstOff(acc, d)>>]

Idle == [pc |-> "idle", op |-> "none", buf |-> <<>>, start |-> <<>>, sent |-> <<>>]

\* BufWriter::new(inner, capacity)
InitBufWriter ==
    /\ usizeBits \in {NarrowBits, WideBits}
    /\ NoThreads
    /\ maps = <<>>
    /\ overflowChecks = FALSE
    /\ sys \in {s \in SystemInfos : s.page = s.alloc}
    /\ \E hint \in 1..MaxHint :
        /\ 2 * Ring_new(hint).len < UsizeMod
        /\ ring = Ring_new(hint)
        /\ mem = FreshMem(Ring_new(hint).len)
        /\ last = Called("new", [buf |-> <<>>, to |-> "none"], IoOk(hint))
    /\ pending = <<>>
    /\ written = <<>>
    /\ host = <<>>
    /\ call = Idle
    /\ handle = [state |-> "BufWriter"]
    /\ region = NoRegion

bufVars == <<usizeBits, overflowChecks, sys, cacheVars, maps, host, region>>

\* flush_buf begins for the operation op
flush_buf(op, buf) ==
    [pc |-> "flush_buf", op |-> op, buf |-> buf,
     start |-> Buffered(ring, mem), sent |-> <<>>]

\* `if buf.len() > self.buf.write_len() { self.flush_buf()?; }`
BufWriter_write_flushes(r, buf) == Len(buf) > write_len(r)

\* `if buf.len() >= self.buf.write_len()`: the buffer goes to the inner
\* writer, and into the ring otherwise
BufWriter_write_direct(r, buf) == Len(buf) >= write_len(r)

\* the rest of write after the flush: self.inner.write(buf), whose result is
\* write's, or self.buf.write(buf)
WriteTail(c, buf) ==
    IF BufWriter_write_direct(ring, buf)
    THEN \E res \in InnerWrites(Len(buf)) :
            /\ pending' = Delivered(Take(buf, res.n), Take(buf, res.n)).pending
            /\ written' = Delivered(Take(buf, res.n), Take(buf, res.n)).written
            /\ last' = Called("write", [buf |-> buf, to |-> "inner"], res)
            /\ call' = Idle
            /\ UNCHANGED <<ring, mem, handle>>
    ELSE \E res \in {write_into(ring, mem, buf)} :
            /\ InBound(res.ring)
            /\ ring' = res.ring
            /\ mem' = res.mem
            /\ pending' = Accepted(Take(buf, res.ret)).pending
            /\ written' = Accepted(Take(buf, res.ret)).written
            /\ last' = Called("write", [buf |-> buf, to |-> "ring"], IoOk(res.ret))
            /\ call' = Idle
            /\ UNCHANGED handle

\* <BufWriter as Write>::write(buf), up to its first call of the inner writer
BufWriterWrite ==
    /\ handle.state = "BufWriter"
    /\ call.pc = "idle"
    /\ \E buf \in Bufs :
        IF BufWriter_write_flushes(ring, buf)
        THEN /\ call' = flush_buf("write", buf)
             /\ UNCHANGED <<ring, mem, pending, written, last, handle>>
        ELSE WriteTail(flush_buf("write", buf), buf)
    /\ UNCHANGED bufVars

\* <BufWriter as Write>::flush() begins
BufWriterFlush ==
    /\ handle.state = "BufWriter"
    /\ call.pc = "idle"
    /\ call' = flush_buf("flush", <<>>)
    /\ UNCHANGED <<ring, mem, pending, written, last, handle>>
    /\ UNCHANGED bufVars

\* BufWriter::into_inner() begins
BufWriterIntoInner ==
    /\ handle.state = "BufWriter"
    /\ call.pc = "idle"
    /\ call' = flush_buf("into_inner", <<>>)
    /\ UNCHANGED <<ring, mem, pending, written, last, handle>>
    /\ UNCHANGED bufVars

\* what the loop of flush_buf does with the result of self.inner.write:
\* Ok(0) breaks with WriteZero, Ok(n) consumes, Interrupted goes round again,
\* any other error breaks with it
flush_buf_match(res) ==
    CASE res.kind = "Ok" /\ res.n = 0 -> "WriteZero"
      [] res.kind = "Ok" -> "consume"
      [] res.kind = "Interrupted" -> "loop"
      [] OTHER -> "Other"

\* a faulty variant: all of the slice is taken as written
flush_buf_consume_all(r, n) == consume(r, read_len(r))

\* `Ok(n) => self.buf.consume(n)`
flush_buf_consume(r, n) == consume(r, n)

\* one round of the loop of flush_buf with bytes in the ring
FlushBufStep ==
    /\ call.pc = "flush_buf"
    /\ ~is_empty(ring)
    /\ \E slice \in {Buffered(ring, mem)} :
       \E res \in InnerWrites(Len(slice)) :
       \E m \in {flush_buf_match(res)} :
         IF m = "consume"
         THEN /\ ring' = flush_buf_consume(ring, res.n)
              /\ pending' = Delivered(<<>>, Take(slice, res.n)).pending
              /\ written' = Delivered(<<>>, Take(slice, res.n)).written
              /\ call' = [call EXCEPT !.sent = call.sent \o Take(slice, res.n)]
              /\ last' = Called("inner.write", [buf |-> slice, to |-> "inner"], res)
              /\ UNCHANGED <<mem, handle>>
         ELSE IF m = "loop"
         THEN /\ last' = Called("inner.write", [buf |-> slice, to |-> "inner"], res)
              /\ UNCHANGED <<ring, mem, pending, written, call, handle>>
         ELSE /\ last' = Called(call.op,
                              [buf |-> Drop(call.start, Len(call.sent)),
                               to |-> "flush_buf"],
                              IoErr(m))
              /\ call' = Idle
              /\ handle' = IF call.op = "into_inner"
                           THEN [state |-> "IntoInnerError"] ELSE handle
              /\ UNCHANGED <<ring, mem, pending, written>>
    /\ UNCHANGED bufVars

\* the loop of flush_buf finds the ring empty and breaks with Ok(()): write
\* goes on, flush calls the inner writer's flush, into_inner gives the inner
\* writer back
FlushBufDone ==
    /\ call.pc = "flush_buf"
    /\ is_empty(ring)
    /\ CASE call.op = "write" -> WriteTail(call, call.buf)
         [] call.op = "flush" ->
              /\ \E res \in {IoOk(0), IoErr("Other")} :
                    last' = Called("flush", [buf |-> <<>>, to |-> "inner"], res)
              /\ call' = Idle
              /\ UNCHANGED <<ring, mem, pending, written, handle>>
         [] OTHER ->
              /\ last' = Called("into_inner", [buf |-> <<>>, to |-> "none"], IoOk(0))
              /\ call' = Idle
              /\ handle' = [state |-> "Inner"]
              /\ UNCHANGED <<ring, mem, pending, written>>
    /\ UNCHANGED bufVars

\* IntoInnerError::into_inner(): the BufWriter the failed into_inner held
IntoInnerErrorIntoInner ==
    /\ handle.state = "IntoInnerError"
    /\ handle' = [state |-> "BufWriter"]
    /\ last' = Called("error.into_inner", [buf |-> <<>>, to |-> "none"], IoOk(0))
    /\ UNCHANGED <<ring, mem, pending, written, call>>
    /\ UNCHANGED bufVars

NextBufWriter ==
    \/ BufWriterWrite
    \/ BufWriterFlush
    \/ BufWriterIntoInner
    \/ FlushBufStep
    \/ FlushBufDone
    \/ IntoInnerErrorIntoInner

SpecBufWriter == InitBufWriter /\ [][NextBufWriter]_vars

BufWriterTypeOK ==
    /\ Len(pending) <= ring.len + MaxBuf
    /\ call.pc \in {"idle", "flush_buf"}

-----------------------------------------------------------------------------
(* Claims about BufWriter *)

\* flush_buf has failed: the operation returned its error
FlushFailed == last.arg.to = "flush_buf"

\* C34: flush_buf loops until the ring is empty: it consumes exactly the n
\* bytes the inner writer reports written on each round, goes round again
\* when the inner writer returns Interrupted, fails with WriteZero when the
\* inner writer returns Ok(0), and on any failure leaves exactly the
\* undelivered bytes in the ring, which the error of into_inner still holds.
C34_FlushBuf ==
    /\ call.pc = "flush_buf" =>
          call.start = call.sent \o Buffered(ring, mem)
    /\ (call.pc = "flush_buf" /\ last.op = "inner.write") =>
          /\ last.ret.kind \in {"Ok", "Interrupted"}
          /\ last.ret.kind = "Ok" =>
                /\ last.ret.n > 0
                /\ Buffered(ring, mem) = Drop(last.arg.buf, last.ret.n)
          /\ last.ret.kind = "Interrupted" =>
                Buffered(ring, mem) = last.arg.buf
    /\ FlushFailed =>
          /\ last.ret.kind \in {"WriteZero", "Other"}
          /\ last.arg.buf # <<>>
          /\ Buffered(ring, mem) = last.arg.buf
          /\ last.op = "into_inner" <=> handle.state = "IntoInnerError"
    /\ (last.op \in {"flush", "into_inner"} /\ last.ret.kind = "Ok") =>
          is_empty(ring)

\* C34 on targets whose usize has the width of the cursors
C34_FlushBufWide == usizeBits = WideBits => C34_FlushBuf

\* into_inner failed after the inner writer took a part of the buffered
\* bytes, and its error holds the rest
C34_FailedPartWay ==
    /\ FlushFailed
    /\ last.op = "into_inner"
    /\ handle.state = "IntoInnerError"
    /\ last.ret.kind = "WriteZero"
    /\ 0 < read_len(ring)
    /\ read_len(ring) < ring.len

\* a round of flush_buf was interrupted and the loop goes on
C34_Interrupted ==
    /\ call.pc = "flush_buf"
    /\ last.op = "inner.write"
    /\ last.ret.kind = "Interrupted"
    /\ call.sent # <<>>

\* C35: for any sequence of write and flush calls and any inner writer that
\* may accept partial writes, the bytes delivered to the inner writer are
\* always a prefix of the concatenation of the bytes that write reported as
\* accepted, in the same order, with no byte lost, duplicated or reordered;
\* after a successful flush the two sequences are equal.
C35_DeliveredInOrder ==
    /\ written = <<>>
    /\ (last.op = "flush" /\ last.ret.kind = "Ok") => pending = <<>>

\* C35 on targets whose usize has the width of the cursors
C35_DeliveredInOrderWide == usizeBits = WideBits => C35_DeliveredInOrder

\* write gave its buffer to the inner writer while the ring held bytes of
\* earlier writes, and the inner writer took bytes that are not the next
\* ones accepted
C35_WroteAroundRing ==
    /\ usizeBits = WideBits
    /\ last.op = "write"
    /\ last.arg.to = "inner"
    /\ last.ret.kind = "Ok"
    /\ last.ret.n > 0
    /\ ~is_empty(ring)
    /\ written # <<>>

-----------------------------------------------------------------------------
(***************************************************************************)
(* BufReader: src/src/io/buffer.rs. A Ring behind an inner reader that     *)
(* produces any bytes, as many as it likes up to the slice it is given,    *)
(* or fails. pending holds the bytes the inner reader has produced and the *)
(* caller has not been handed yet, in order; written stays empty until the *)
(* caller is handed bytes that are not the front of pending.               *)
(***************************************************************************)

\* Largest low-water mark given to set_lowat.
MaxLowat == 2

\* what a call of the inner reader's read with a slice of n bytes can return
InnerReads(n) ==
    {[kind |-> "Ok", data |-> d] : d \in {s \in Bufs : Len(s) <= n}}
        \cup {[kind |-> "Other", data |-> <<>>]}

\* BufReader::new(inner, capacity): lowat is 0
InitBufReader ==
    /\ usizeBits \in {NarrowBits, WideBits}
    /\ NoThreads
    /\ maps = <<>>
    /\ overflowChecks = FALSE
    /\ sys \in {s \in SystemInfos : s.page = s.alloc}
    /\ \E hint \in 1..MaxHint :
        /\ 2 * Ring_new(hint).len < UsizeMod
        /\ ring = Ring_new(hint)
        /\ mem = FreshMem(Ring_new(hint).len)
        /\ last = Called("new", [n |-> hint, len |-> 0, lowat |-> 0, from |-> "none"],
                         [kind |-> "Ok", data |-> <<>>])
    /\ pending = <<>>
    /\ written = <<>>
    /\ host = <<>>
    /\ call = NoCall
    /\ handle = [state |-> "BufReader", lowat |-> 0]
    /\ region = NoRegion

\* a faulty variant: the inner reader is read whenever fill_buf is called
BufReader_fill_buf_reads_always(r, lowat) == TRUE

\* `if self.buf.read_len() <= self.lowat`
BufReader_fill_buf_reads(r, lowat) == read_len(r) <= lowat

\* fill_buf with the result res of the inner reader:
\* `let n = self.inner.read(self.buf.as_write_slice(MAX))?; self.buf.feed(n)`
BufReader_fill_buf(r, m, res) ==
    IF res.kind = "Ok"
    THEN [ring |-> feed(r, Len(res.data)),
          mem |-> SliceStore(r, m, write_offset(r), res.data)]
    ELSE [ring |-> r, mem |-> m]

\* a faulty variant: a buffer as long as the ring bypasses it whatever it holds
BufReader_read_direct_nonempty(r, n) == n >= write_capacity(r)

\* `if self.buf.read_len() == 0 && buf.len() >= self.buf.write_capacity()`
BufReader_read_direct(r, n) == read_len(r) = 0 /\ n >= write_capacity(r)

\* the results the inner reader may give fill_buf, none when it is not read
FillReads(r, lowat) ==
    IF BufReader_fill_buf_reads(r, lowat)
    THEN InnerReads(as_write_slice_len(r, UsizeMax))
    ELSE {[kind |-> "None", data |-> <<>>]}

\* <BufReader as BufRead>::fill_buf()
BufReaderFillBuf ==
    /\ handle.state = "BufReader"
    /\ \E res \in FillReads(ring, handle.lowat) :
       \E f \in {BufReader_fill_buf(ring, mem, res)} :
        /\ InBound(f.ring)
        /\ ring' = f.ring
        /\ mem' = f.mem
        /\ pending' = Accepted(res.data).pending
        /\ written' = Accepted(res.data).written
        /\ last' = Called("fill_buf",
                          [n |-> 0, len |-> read_len(ring), lowat |-> handle.lowat,
                           from |-> IF res.kind = "None" THEN "ring" ELSE "inner"],
                          [kind |-> IF res.kind = "Other" THEN "Other" ELSE "Ok",
                           data |-> IF res.kind = "Other" THEN <<>>
                                    ELSE Buffered(f.ring, f.mem)])
    /\ UNCHANGED <<handle, call, bufVars>>

\* <BufReader as BufRead>::consume(amt): the caller takes the bytes
BufReaderConsume ==
    /\ handle.state = "BufReader"
    /\ \E amt \in Lens :
       \E got \in {as_read_slice(ring, mem, amt)} :
        /\ ring' = consume(ring, amt)
        /\ pending' = Delivered(<<>>, got).pending
        /\ written' = Delivered(<<>>, got).written
        /\ last' = Called("consume",
                          [n |-> amt, len |-> read_len(ring), lowat |-> handle.lowat,
                           from |-> "ring"],
                          [kind |-> "Ok", data |-> got])
    /\ UNCHANGED <<mem, handle, call, bufVars>>

\* <BufReader as Read>::read(buf) with a buffer of n bytes
BufReaderRead ==
    /\ handle.state = "BufReader"
    /\ \E n \in 0..MaxBuf :
        IF BufReader_read_direct(ring, n)
        THEN \E res \in InnerReads(n) :
                /\ pending' = Delivered(res.data, res.data).pending
                /\ written' = Delivered(res.data, res.data).written
                /\ last' = Called("read",
                                  [n |-> n, len |-> read_len(ring),
                                   lowat |-> handle.lowat, from |-> "direct"],
                                  res)
                /\ UNCHANGED <<ring, mem>>
        ELSE \E res \in FillReads(ring, handle.lowat) :
             \E f \in {BufReader_fill_buf(ring, mem, res)} :
             \E got \in {IF res.kind = "Other" THEN <<>>
                         ELSE as_read_slice(f.ring, f.mem, n)} :
                /\ InBound(f.ring)
                /\ ring' = consume(f.ring, Len(got))
                /\ mem' = f.mem
                /\ pending' = Delivered(res.data, got).pending
                /\ written' = Delivered(res.data, got).written
                /\ last' = Called("read",
                                  [n |-> n, len |-> read_len(ring),
                                   lowat |-> handle.lowat,
                                   from |-> IF res.kind = "None" THEN "ring" ELSE "inner"],
                                  [kind |-> IF res.kind = "Other" THEN "Other" ELSE "Ok",
                                   data |-> got])
    /\ UNCHANGED <<handle, call, bufVars>>

\* BufReader::set_lowat(val)
BufReaderSetLowat ==
    /\ handle.state = "BufReader"
    /\ \E val \in 0..MaxLowat :
        /\ handle' = [handle EXCEPT !.lowat = val]
        /\ last' = Called("set_lowat",
                          [n |-> val, len |-> read_len(ring), lowat |-> val,
                           from |-> "none"],
                          [kind |-> "Ok", data |-> <<>>])
    /\ UNCHANGED <<ring, mem, pending, written, call, bufVars>>

NextBufReader ==
    \/ BufReaderFillBuf
    \/ BufReaderConsume
    \/ BufReaderRead
    \/ BufReaderSetLowat

SpecBufReader == InitBufReader /\ [][NextBufReader]_vars

\* C36: for any sequence of read, fill_buf and consume calls, the bytes
\* handed to the caller are exactly the bytes produced by the inner reader,
\* in order and each once; fill_buf reads from the inner reader only when
\* read_len() is at most the low-water mark, and read bypasses the ring only
\* when the ring is empty and the destination is at least as large as the
\* ring's capacity.
C36_HandedInOrder ==
    /\ written = <<>>
    /\ pending = Buffered(ring, mem)
    /\ (last.op \in {"fill_buf", "read"} /\ last.arg.from = "inner") =>
          last.arg.len <= last.arg.lowat
    /\ (last.op = "read" /\ last.arg.from = "direct") =>
          /\ last.arg.len = 0
          /\ last.arg.n >= write_capacity(ring)

\* C36 on targets whose usize has the width of the cursors
C36_HandedInOrderWide == usizeBits = WideBits => C36_HandedInOrder

\* read took bytes through the ring on top of bytes it already held, after
\* the inner reader was read above an empty ring
C36_ReadThroughRing ==
    /\ last.op = "read"
    /\ last.arg.from = "inner"
    /\ last.arg.len > 0
    /\ Len(last.ret.data) = last.arg.n
    /\ last.arg.n > 0
    /\ pending # <<>>

\* read bypassed the ring
C36_ReadBypassed ==
    /\ last.op = "read"
    /\ last.arg.from = "direct"
    /\ last.ret.data # <<>>

====
